---- MODULE Spec2Model ----
(***************************************************************************)
(* go-xlsb: BIFF12 record framing (record.Reader), the payload cursor      *)
(* (record.RecordReader) and the two-pass worksheet scanner                *)
(* (worksheet.New / Worksheet.parse / Worksheet.Rows).                     *)
(*                                                                         *)
(* Bytes are naturals 0..255.  Stream offsets are 0-based as in Go; the    *)
(* byte at offset p of a stream s is s[p+1].  A uint32 is kept as its two  *)
(* 16-bit halves [hi, lo] so that every 32-bit pattern is representable.   *)
(***************************************************************************)
EXTENDS Integers, Sequences, FiniteSets, TLC

\* ------------------------------------------------------------------------
\* biff12 record type IDs (biff12/records.go)
\* ------------------------------------------------------------------------
Row == 0
Blank == 1
Num == 2
BoolErr == 3
Bool == 4
Float == 5
String == 7
FormulaString == 8
FormulaFloat == 9
FormulaBool == 10
FormulaBoolErr == 11
Col == 60
Worksheet == 385
WorksheetEnd == 386
SheetData == 401
SheetDataEnd == 402
Dimension == 404
MergeCell == 432
Hyperlink == 1006

\* record/reader.go: const maxRecordLen = 10 * 1024 * 1024
maxRecordLen == 10485760

\* worksheet: const maxRow = 0xFFFFF, maxCol = 0x3FFF, maxRowIndex = 0xFFFFF
maxRow == 1048575
maxCol == 16383
maxRowIndex == 1048575

\* ------------------------------------------------------------------------
\* uint32 helpers
\* ------------------------------------------------------------------------
U32 == [hi : 0..65535, lo : 0..65535]

\* binary.LittleEndian.Uint32 over four bytes
LittleEndianUint32(b0, b1, b2, b3) == [hi |-> b3 * 256 + b2, lo |-> b1 * 256 + b0]

\* the uint32 with value n, 0 <= n < 2^31
U32Of(n) == [hi |-> n \div 65536, lo |-> n % 65536]

\* a < b on uint32
U32Less(a, b) == a.hi < b.hi \/ (a.hi = b.hi /\ a.lo < b.lo)

\* int(u) for u < 2^31
U32Int(u) == u.hi * 65536 + u.lo

\* ------------------------------------------------------------------------
\* record.Reader
\* ------------------------------------------------------------------------
Pow256(i) == CASE i = 0 -> 1 [] i = 1 -> 256 [] i = 2 -> 65536 [] OTHER -> 16777216
\* chunks of eight bits instead of seven
Pow128MutBytes(i) == CASE i = 0 -> 1 [] i = 1 -> 256 [] i = 2 -> 65536 [] OTHER -> 16777216
Pow128(i) == CASE i = 0 -> 1 [] i = 1 -> 128 [] i = 2 -> 16384 [] OTHER -> 2097152

\* Reader.readID: loop body for byte i with accumulator v, stream offset pos.
\* io.ReadFull on a one-byte buffer yields io.EOF when no byte is left.
\* The sum stays below 2^31 whenever it is returned (the last byte is < 0x80).
RECURSIVE readIDLoop(_, _, _, _)
readIDLoop(data, pos, i, v) ==
  IF pos >= Len(data)
  THEN [v |-> 0, err |-> "EOF", pos |-> pos]
  ELSE LET b == data[pos + 1]
       IN IF b < 128
          THEN [v |-> v + b * Pow256(i), err |-> "nil", pos |-> pos + 1]
          ELSE IF i = 3
               THEN [v |-> 0, err |-> "ErrIDContinuation", pos |-> pos + 1]
               ELSE readIDLoop(data, pos + 1, i + 1, v + b * Pow256(i))

readID(data, pos) == readIDLoop(data, pos, 0, 0)

\* Reader.readLen: 7-bit little-endian chunks
RECURSIVE readLenLoop(_, _, _, _)
readLenLoop(data, pos, i, v) ==
  IF pos >= Len(data)
  THEN [v |-> 0, err |-> "EOF", pos |-> pos]
  ELSE LET b  == data[pos + 1]
           v2 == v + (b % 128) * Pow128(i)
       IN IF b < 128
          THEN [v |-> v2, err |-> "nil", pos |-> pos + 1]
          ELSE IF i = 3
               THEN [v |-> 0, err |-> "ErrLenContinuation", pos |-> pos + 1]
               ELSE readLenLoop(data, pos + 1, i + 1, v2)

readLen(data, pos) == readLenLoop(data, pos, 0, 0)

\* How Reader.Next maps the error of readID.  io.EOF and io.ErrUnexpectedEOF
\* both become io.EOF; anything else is wrapped ("record: reading ID: ...").
NextIDError(e) == IF e = "EOF" \/ e = "ErrUnexpectedEOF" THEN "EOF" ELSE "ErrReadingID"

\* How Reader.Next maps the error of readLen: always wrapped, so a bare
\* io.EOF never leaves Next from here.
NextLenErrorMutEOF(e) == IF e = "EOF" THEN "EOF" ELSE "ErrReadingLength"
NextLenError(e) == "ErrReadingLength"

\* Error returned when io.ReadFull cannot fill the payload buffer (wrapped).
NextPayloadError == "ErrReadingPayload"

\* the guard on the declared payload length: if recLen > maxRecordLen
TooLongMutNever(n) == FALSE
TooLong(n) == n > maxRecordLen

\* Reader.Next at stream offset pos.  Result: recID, data (payload), err, the
\* stream offset afterwards, the size of the payload buffer that was made
\* (alloc) and the number of record-ID bytes consumed (idBytes).
ReaderNext(data, pos) ==
  LET id == readID(data, pos)
  IN IF id.err # "nil"
     THEN [recID |-> 0, data |-> <<>>, err |-> NextIDError(id.err),
           pos |-> id.pos, alloc |-> 0, idBytes |-> id.pos - pos]
     ELSE LET ln == readLen(data, id.pos)
          IN IF ln.err # "nil"
             THEN [recID |-> 0, data |-> <<>>, err |-> NextLenError(ln.err),
                   pos |-> ln.pos, alloc |-> 0, idBytes |-> id.pos - pos]
             ELSE IF TooLong(ln.v)
                  THEN [recID |-> 0, data |-> <<>>, err |-> "ErrTooLong",
                        pos |-> ln.pos, alloc |-> 0, idBytes |-> id.pos - pos]
                  ELSE IF ln.v = 0
                       THEN [recID |-> id.v, data |-> <<>>, err |-> "nil",
                             pos |-> ln.pos, alloc |-> 0, idBytes |-> id.pos - pos]
                       ELSE IF ln.pos + ln.v > Len(data)
                            THEN [recID |-> 0, data |-> <<>>, err |-> NextPayloadError,
                                  pos |-> Len(data), alloc |-> ln.v,
                                  idBytes |-> id.pos - pos]
                            ELSE [recID |-> id.v,
                                  data |-> SubSeq(data, ln.pos + 1, ln.pos + ln.v),
                                  err |-> "nil", pos |-> ln.pos + ln.v,
                                  alloc |-> ln.v, idBytes |-> id.pos - pos]

\* ------------------------------------------------------------------------
\* record.RecordReader: every read takes the payload and the cursor and
\* returns the value, the error and the new cursor.
\* ------------------------------------------------------------------------
remaining(data, pos) == Len(data) - pos

ReadUint8(data, pos) ==
  IF remaining(data, pos) < 1
  THEN [v |-> 0, err |-> "ErrUnexpectedEOF", pos |-> pos]
  ELSE [v |-> data[pos + 1], err |-> "nil", pos |-> pos + 1]

ReadUint16(data, pos) ==
  IF remaining(data, pos) < 2
  THEN [v |-> 0, err |-> "ErrUnexpectedEOF", pos |-> pos]
  ELSE [v |-> data[pos + 2] * 256 + data[pos + 1], err |-> "nil", pos |-> pos + 2]

ReadUint32(data, pos) ==
  IF remaining(data, pos) < 4
  THEN [v |-> U32Of(0), err |-> "ErrUnexpectedEOF", pos |-> pos]
  ELSE [v |-> LittleEndianUint32(data[pos + 1], data[pos + 2], data[pos + 3], data[pos + 4]),
        err |-> "nil", pos |-> pos + 4]

\* ReadInt32: int32(u) of the uint32 read
ReadInt32(data, pos) ==
  LET r == ReadUint32(data, pos)
  IN [v |-> IF r.v.hi >= 32768 THEN (r.v.hi - 65536) * 65536 + r.v.lo
            ELSE r.v.hi * 65536 + r.v.lo,
      err |-> r.err, pos |-> r.pos]

\* Read(p) with len(p) = n: the n bytes copied into p
Read(data, pos, n) ==
  IF remaining(data, pos) < n
  THEN [v |-> <<>>, err |-> "ErrUnexpectedEOF", pos |-> pos]
  ELSE [v |-> SubSeq(data, pos + 1, pos + n), err |-> "nil", pos |-> pos + n]

\* Skip takes a count n (an int, possibly negative)
\* (SkipMutNoCheck: without the check against the remaining bytes)
SkipMutNoCheck(data, pos, n) ==
  IF n < 0 THEN [err |-> "ErrSkipNegative", pos |-> pos]
  ELSE [err |-> "nil", pos |-> pos + n]
Skip(data, pos, n) ==
  IF n < 0 THEN [err |-> "ErrSkipNegative", pos |-> pos]
  ELSE IF remaining(data, pos) < n THEN [err |-> "ErrSkip", pos |-> pos]
  ELSE [err |-> "nil", pos |-> pos + n]

\* float64 values.  A double read from 8 bytes is kept as its bit pattern,
\* most significant byte first.  A packed (RK) number is kept as the exact
\* quantity the code computes: an integer or a double whose low 32 bits are
\* zero, optionally divided by 100.
F64Bits(b7, b6, b5, b4, b3, b2, b1, b0) ==
  [t |-> "float", bits |-> <<b7, b6, b5, b4, b3, b2, b1, b0>>]

\* the eight bytes taken most significant first (big-endian)
ReadDoubleMutBigEndian(data, pos) ==
  IF remaining(data, pos) < 8
  THEN [v |-> [t |-> "nil"], err |-> "ErrUnexpectedEOF", pos |-> pos]
  ELSE [v |-> F64Bits(data[pos + 1], data[pos + 2], data[pos + 3], data[pos + 4],
                      data[pos + 5], data[pos + 6], data[pos + 7], data[pos + 8]),
        err |-> "nil", pos |-> pos + 8]
ReadDouble(data, pos) ==
  IF remaining(data, pos) < 8
  THEN [v |-> [t |-> "nil"], err |-> "ErrUnexpectedEOF", pos |-> pos]
  ELSE [v |-> F64Bits(data[pos + 8], data[pos + 7], data[pos + 6], data[pos + 5],
                      data[pos + 4], data[pos + 3], data[pos + 2], data[pos + 1]),
        err |-> "nil", pos |-> pos + 8]

\* int32(u) >> 2, arithmetic
Int32Shr2(u) ==
  LET q == u.hi * 16384 + (u.lo \div 4)
  IN IF u.hi >= 32768 THEN q - 1073741824 ELSE q

ReadFloat(data, pos) ==
  LET r == ReadUint32(data, pos)
  IN IF r.err # "nil"
     THEN [v |-> [t |-> "nil"], err |-> r.err, pos |-> r.pos]
     ELSE LET raw    == r.v
              isInt  == (raw.lo \div 2) % 2 = 1
              div100 == raw.lo % 2 = 1
          IN [v |-> IF isInt
                    THEN [t |-> "rkint", n |-> Int32Shr2(raw), div100 |-> div100]
                    ELSE [t |-> "rkfloat",
                          hi |-> [hi |-> raw.hi, lo |-> raw.lo - (raw.lo % 4)],
                          div100 |-> div100],
              err |-> "nil", pos |-> r.pos]

\* utf16.Decode: surrogate pairs combine, a lone surrogate becomes U+FFFD
RECURSIVE utf16Decode(_)
utf16Decode(u) ==
  IF u = <<>> THEN <<>>
  ELSE LET r == u[1]
       IN IF r < 55296 \/ r >= 57344
          THEN <<r>> \o utf16Decode(Tail(u))
          ELSE IF r < 56320 /\ Len(u) >= 2 /\ u[2] >= 56320 /\ u[2] < 57344
               THEN <<(r - 55296) * 1024 + (u[2] - 56320) + 65536>>
                    \o utf16Decode(Tail(Tail(u)))
               ELSE <<65533>> \o utf16Decode(Tail(u))

decodeUTF16LE(b) ==
  utf16Decode([i \in 1..(Len(b) \div 2) |-> b[2 * i] * 256 + b[2 * i - 1]])

\* const maxChars = 0x3FFFFFFF
ReadString(data, pos) ==
  LET c == ReadUint32(data, pos)
  IN IF c.err # "nil"
     THEN [v |-> <<>>, err |-> c.err, pos |-> c.pos]
     ELSE IF c.v.hi > 16383
          THEN [v |-> <<>>, err |-> "ErrStringTooLarge", pos |-> c.pos]
          ELSE IF remaining(data, c.pos) < U32Int(c.v) * 2
               THEN [v |-> <<>>, err |-> "ErrUnexpectedEOF", pos |-> c.pos]
               ELSE [v |-> decodeUTF16LE(SubSeq(data, c.pos + 1, c.pos + U32Int(c.v) * 2)),
                     err |-> "nil", pos |-> c.pos + U32Int(c.v) * 2]

\* ------------------------------------------------------------------------
\* worksheet record decoders
\* ------------------------------------------------------------------------
Nil == [t |-> "nil"]

\* The four leading uint32 fields r1, r2, c1, c2 shared by DIMENSION,
\* MERGE_CELL and HYPERLINK records.
ReadRange(data) ==
  LET r1 == ReadUint32(data, 0)
      r2 == ReadUint32(data, r1.pos)
      c1 == ReadUint32(data, r2.pos)
      c2 == ReadUint32(data, c1.pos)
  IN IF r1.err # "nil" THEN [err |-> r1.err]
     ELSE IF r2.err # "nil" THEN [err |-> r2.err]
     ELSE IF c1.err # "nil" THEN [err |-> c1.err]
     ELSE IF c2.err # "nil" THEN [err |-> c2.err]
     ELSE [err |-> "nil", r1 |-> r1.v, r2 |-> r2.v, c1 |-> c1.v, c2 |-> c2.v,
           pos |-> c2.pos]

\* The range validation shared by the three decoders; the result is the
\* error, or the area (R, C, H, W).
\* without the two order checks
ValidateRangeMutNoOrder(g) ==
  IF U32Less(U32Of(maxRow), g.r2) THEN [err |-> "ErrMaxRow"]
  ELSE IF U32Less(U32Of(maxCol), g.c2) THEN [err |-> "ErrMaxCol"]
  ELSE [err |-> "nil",
        v |-> [t |-> "area", R |-> U32Int(g.r1), C |-> U32Int(g.c1),
               H |-> (U32Int(g.r2) - U32Int(g.r1)) + 1,
               W |-> (U32Int(g.c2) - U32Int(g.c1)) + 1]]
ValidateRange(g) ==
  IF U32Less(g.r2, g.r1) THEN [err |-> "ErrRowOrder"]
  ELSE IF U32Less(g.c2, g.c1) THEN [err |-> "ErrColOrder"]
  ELSE IF U32Less(U32Of(maxRow), g.r2) THEN [err |-> "ErrMaxRow"]
  ELSE IF U32Less(U32Of(maxCol), g.c2) THEN [err |-> "ErrMaxCol"]
  ELSE [err |-> "nil",
        v |-> [t |-> "area", R |-> U32Int(g.r1), C |-> U32Int(g.c1),
               H |-> (U32Int(g.r2) - U32Int(g.r1)) + 1,
               W |-> (U32Int(g.c2) - U32Int(g.c1)) + 1]]

parseDimensionRecord(data) ==
  LET g == ReadRange(data)
  IN IF g.err # "nil" THEN [err |-> g.err] ELSE ValidateRange(g)

parseMergeCellRecord(data) ==
  LET g == ReadRange(data)
  IN IF g.err # "nil" THEN [err |-> g.err] ELSE ValidateRange(g)

parseHyperlinkRecord(data) ==
  LET g == ReadRange(data)
  IN IF g.err # "nil" THEN [err |-> g.err]
     ELSE LET rID == ReadString(data, g.pos)
          IN IF rID.err # "nil" THEN [err |-> rID.err]
             ELSE LET a == ValidateRange(g)
                  IN IF a.err # "nil" THEN a
                     ELSE [err |-> "nil",
                           v |-> [R |-> a.v.R, C |-> a.v.C, H |-> a.v.H, W |-> a.v.W,
                                  RID |-> rID.v]]

\* const maxStyleIndex = 0x7FFFFFFF: a larger raw style becomes 0
StyleIndex(raw) == IF raw.hi >= 32768 THEN U32Of(0) ELSE raw

parseColRecord(data) ==
  LET c1 == ReadUint32(data, 0)
      c2 == ReadUint32(data, c1.pos)
      w  == ReadUint32(data, c2.pos)
      s  == ReadUint32(data, w.pos)
  IN IF c1.err # "nil" THEN [err |-> c1.err]
     ELSE IF c2.err # "nil" THEN [err |-> c2.err]
     ELSE IF w.err # "nil" THEN [err |-> w.err]
     ELSE IF s.err # "nil" THEN [err |-> s.err]
     ELSE [err |-> "nil",
           v |-> [C1 |-> c1.v, C2 |-> c2.v, WidthRaw |-> w.v, Style |-> StyleIndex(s.v)]]

\* parseRowRecord: the row index, rejected above maxRowIndex
parseRowRecord(data) ==
  LET r == ReadUint32(data, 0)
  IN IF r.err # "nil" THEN [err |-> r.err, r |-> 0]
     ELSE IF U32Less(U32Of(maxRowIndex), r.v) THEN [err |-> "ErrRowIndex", r |-> 0]
     ELSE [err |-> "nil", r |-> U32Int(r.v)]

\* errStrings / errString: the BErr code is kept, tagged as an error string
errString(b) == [t |-> "errstr", code |-> b]

\* The type-specific value of a cell record, read at cursor pos.  st is the
\* shared-string table [t |-> "st", strings |-> <<...>>] or Nil.
CellValue(data, pos, recID, st) ==
  CASE recID = Num ->
         LET f == ReadFloat(data, pos) IN IF f.err # "nil" THEN Nil ELSE f.v
    [] recID = BoolErr \/ recID = FormulaBoolErr ->
         LET b == ReadUint8(data, pos) IN IF b.err # "nil" THEN Nil ELSE errString(b.v)
    [] recID = Bool \/ recID = FormulaBool ->
         LET b == ReadUint8(data, pos)
         IN IF b.err # "nil" THEN Nil ELSE [t |-> "bool", b |-> b.v # 0]
    [] recID = Float \/ recID = FormulaFloat ->
         LET f == ReadDouble(data, pos) IN IF f.err # "nil" THEN Nil ELSE f.v
    [] recID = String ->
         LET idx == ReadUint32(data, pos)
         IN IF idx.err # "nil" THEN Nil
            ELSE IF st.t # "nil" /\ U32Less(idx.v, U32Of(Len(st.strings)))
                 THEN [t |-> "string", s |-> st.strings[U32Int(idx.v) + 1]]
                 ELSE [t |-> "string", s |-> <<"<", idx.v, ">">>]
    [] recID = FormulaString ->
         LET s == ReadString(data, pos)
         IN IF s.err # "nil" THEN Nil ELSE [t |-> "string", s |-> s.v]
    [] OTHER -> Nil

\* parseCellRecord: column, style, value.  An unreadable column is an error;
\* an unreadable style yields the cell with nil value and style 0; an
\* unreadable value yields nil.
parseCellRecord(data, recID, st) ==
  LET col == ReadUint32(data, 0)
      sty == ReadUint32(data, col.pos)
  IN IF col.err # "nil" THEN [err |-> col.err]
     ELSE IF sty.err # "nil"
          THEN [err |-> "nil", C |-> col.v, V |-> Nil, Style |-> 0]
          ELSE [err |-> "nil", C |-> col.v,
                V |-> CellValue(data, sty.pos, recID, st),
                Style |-> U32Int(StyleIndex(sty.v))]

\* effectiveDim: the Dimension or the 1x1 fallback
effectiveDim(dim) ==
  IF dim.t # "nil" THEN dim ELSE [t |-> "area", R |-> 0, C |-> 0, H |-> 1, W |-> 1]

\* width of a row buffer
RowWidth(dim) == IF dim.C + dim.W <= 0 THEN 1 ELSE dim.C + dim.W

\* makeEmptyRow: cells (rowNum, i) for i in [0, dim.C+dim.W), nil value, style 0
makeEmptyRow(rowNum, dim) ==
  [i \in 1..RowWidth(dim) |-> [R |-> rowNum, C |-> i - 1, V |-> Nil, Style |-> 0]]

\* ------------------------------------------------------------------------
\* Encoders used to build input streams (xlsb_testhelpers_test.go)
\* ------------------------------------------------------------------------
RECURSIVE biff12WriteID(_)
biff12WriteID(id) ==
  LET b == id % 256
  IN IF id \div 256 > 0
     THEN <<IF b < 128 THEN b + 128 ELSE b>> \o biff12WriteID(id \div 256)
     ELSE <<b % 128>>

RECURSIVE biff12WriteLen(_)
biff12WriteLen(n) ==
  IF n \div 128 > 0
  THEN <<(n % 128) + 128>> \o biff12WriteLen(n \div 128)
  ELSE <<n % 128>>

biff12WriteRec(id, payload) ==
  biff12WriteID(id) \o biff12WriteLen(Len(payload)) \o payload

\* biff12Le32 for v < 2^31
biff12Le32(v) ==
  <<v % 256, (v \div 256) % 256, (v \div 65536) % 256, (v \div 16777216) % 256>>

\* ------------------------------------------------------------------------
\* Input streams
\* ------------------------------------------------------------------------
\* longest row-data body, in records
MaxBody == 3
\* longest raw byte stream
MaxRaw == 5
\* largest number of rows after which the consumer stops
MaxLimit == 2
\* longest run of metadata records before or after the row data
MaxMeta == 2

RowRec(r) == biff12WriteRec(Row, biff12Le32(r))
\* the payload of a range record: r1, r2, c1, c2, four bytes each
mergeRec(r1, r2, c1, c2) ==
  biff12Le32(r1) \o biff12Le32(r2) \o biff12Le32(c1) \o biff12Le32(c2)
RangeRec(id, r1, r2, c1, c2) == biff12WriteRec(id, mergeRec(r1, r2, c1, c2))
CellRec(id, col, style, value) ==
  biff12WriteRec(id, biff12Le32(col) \o biff12Le32(style) \o value)

\* 42.0 as a little-endian IEEE-754 double
Double42 == <<0, 0, 0, 0, 0, 0, 69, 64>>

SheetDataRec == biff12WriteRec(SheetData, <<>>)
SheetDataEndRec == biff12WriteRec(SheetDataEnd, <<>>)
DimRec == RangeRec(Dimension, 0, 2, 0, 1)
\* a record with the ID biff12.MergeCell (0x01B0) for rows 0-0, columns 0-1
MergeCellRec == RangeRec(MergeCell, 0, 0, 0, 1)

Row0 == RowRec(0)
Row2 == RowRec(2)
RowTooLarge == RowRec(maxRowIndex + 1)
Float0 == CellRec(Float, 0, 0, Double42)
Bool1 == CellRec(Bool, 1, 3, <<1>>)

\* the records a row-data body is made of
BodyRecs == {Row0, Row2, RowTooLarge, Float0, Bool1}

RECURSIVE Bodies(_)
Bodies(n) ==
  IF n = 0 THEN {<<>>}
  ELSE LET B == Bodies(n - 1) IN B \cup {b \o r : b \in B, r \in BodyRecs}

\* a sheet with a Dimension, row data and a merge region after it
SheetStreams ==
  {DimRec \o SheetDataRec \o b \o SheetDataEndRec \o MergeCellRec : b \in Bodies(MaxBody)}

\* every proper prefix of one sheet
FullSheet ==
  DimRec \o SheetDataRec \o Row0 \o Float0 \o Row2 \o Bool1 \o SheetDataEndRec \o MergeCellRec
TruncatedStreams == {SubSeq(FullSheet, 1, k) : k \in 0..(Len(FullSheet) - 1)}

\* raw bytes, alone and inside the row data
RawBytes == {0, 2, 128}
RECURSIVE Raw(_)
Raw(n) ==
  IF n = 0 THEN {<<>>}
  ELSE LET B == Raw(n - 1) IN B \cup {b \o <<x>> : b \in B, x \in RawBytes}
RawStreams == Raw(MaxRaw) \cup {SheetDataRec \o b : b \in Raw(MaxRaw)}

\* sheets without a Dimension record
BareStreams ==
  {SheetDataRec \o b \o SheetDataEndRec \o MergeCellRec : b \in Bodies(MaxBody - 1)}

\* single sheets: a second cell record for a column already filled, a
\* repeated row marker between two cells, cell and row records with short
\* payloads, a shared-string cell, a record type Rows does not handle, a
\* row marker with a short payload between two cells
BoolAt0 == CellRec(Bool, 0, 1, <<0>>)
FloatNoStyle == biff12WriteRec(Float, biff12Le32(1) \o <<0, 0>>)
FloatNoValue == CellRec(Float, 1, 2, <<0, 0, 0>>)
CellNoCol == biff12WriteRec(Blank, <<0, 0>>)
RowShort == biff12WriteRec(Row, <<0, 0>>)
String1 == CellRec(String, 1, 0, biff12Le32(1))
ColEmpty == biff12WriteRec(Col, <<>>)
ExtraStreams ==
  {DimRec \o SheetDataRec \o b \o SheetDataEndRec \o MergeCellRec :
     b \in {Row0 \o Float0 \o BoolAt0,
            Row0 \o Float0 \o Row0 \o Bool1,
            Row0 \o FloatNoStyle,
            Row0 \o Float0 \o FloatNoValue,
            RowShort \o Row0 \o CellNoCol \o ColEmpty \o String1,
            Row0 \o Float0 \o RowShort \o Bool1}}

\* The sheet of the merge fixture, as its own writer encodes it (an ID from
\* 0x80 on as two bytes, low byte first): Dimension rows 0-4, columns 0-2;
\* row 0 with the string "Grade" in column 0, rows 1 and 2 without cells,
\* row 4 with "Header" in column 0; after the row data two records with the
\* ID 0x00E5, which is not biff12.MergeCell, for the ranges A1:A3 and A5:C5.
writeID(id) == IF id < 128 THEN <<id>> ELSE <<id % 256, id \div 256>>
writeRec(id, payload) == writeID(id) \o biff12WriteLen(Len(payload)) \o payload
\* a string as its length and its UTF-16 code units, little-endian
RECURSIVE le16s(_)
le16s(u) == IF u = <<>> THEN <<>> ELSE <<Head(u) % 256, Head(u) \div 256>> \o le16s(Tail(u))
encStr(u) == biff12Le32(Len(u)) \o le16s(u)
formulaStringCell(col, u) == biff12Le32(col) \o biff12Le32(0) \o encStr(u)
Grade == <<71, 114, 97, 100, 101>>
Header == <<72, 101, 97, 100, 101, 114>>
MergeSheet ==
  writeRec(Worksheet, <<>>)
    \o writeRec(Dimension, mergeRec(0, 4, 0, 2))
    \o writeRec(SheetData, <<>>)
    \o writeRec(Row, biff12Le32(0)) \o writeRec(FormulaString, formulaStringCell(0, Grade))
    \o writeRec(Row, biff12Le32(1))
    \o writeRec(Row, biff12Le32(2))
    \o writeRec(Row, biff12Le32(4)) \o writeRec(FormulaString, formulaStringCell(0, Header))
    \o writeRec(SheetDataEnd, <<>>)
    \o writeRec(229, mergeRec(0, 2, 0, 0))
    \o writeRec(229, mergeRec(4, 4, 0, 2))
    \o writeRec(WorksheetEnd, <<>>)

\* a row marker for row 0 followed by a Float cell (column 0, style 0, 42.0):
\* the two records alone, and between SheetData and SheetDataEnd
ScenarioBare == Row0 \o Float0
ScenarioSheet == SheetDataRec \o Row0 \o Float0 \o SheetDataEndRec
ScenarioStreams == {ScenarioBare, ScenarioSheet}

\* Metadata records with valid and invalid ranges: last row before first,
\* last column before first, last row above maxRow, last column above maxCol
HyperlinkRec(r1, r2, c1, c2) ==
  biff12WriteRec(Hyperlink, biff12Le32(r1) \o biff12Le32(r2) \o biff12Le32(c1)
                              \o biff12Le32(c2) \o biff12Le32(1) \o <<114, 0>>)
DimBadOrder == RangeRec(Dimension, 2, 0, 0, 1)
DimTooTall == RangeRec(Dimension, 0, maxRow + 1, 0, 1)
MergeBadCol == RangeRec(MergeCell, 0, 0, 1, 0)
MergeTooWide == RangeRec(MergeCell, 0, 0, 0, maxCol + 1)
HyperlinkOk == HyperlinkRec(0, 0, 0, 1)
HyperlinkBadOrder == HyperlinkRec(1, 0, 0, 0)
HyperlinkTooWide == HyperlinkRec(0, 0, 0, maxCol + 1)
MetaRecs == {DimRec, DimBadOrder, DimTooTall, MergeCellRec, MergeBadCol, MergeTooWide,
             HyperlinkOk, HyperlinkBadOrder, HyperlinkTooWide}

RECURSIVE Metas(_)
Metas(n) ==
  IF n = 0 THEN {<<>>}
  ELSE LET B == Metas(n - 1) IN B \cup {b \o r : b \in B, r \in MetaRecs}

\* metadata records before the row data, and after it
MetaStreams ==
  {m \o ScenarioSheet : m \in Metas(MaxMeta)}
    \cup {ScenarioSheet \o m : m \in Metas(MaxMeta)}

\* Records declaring a payload of 10 MiB + 1 bytes, of 2^28 - 1 bytes and of
\* exactly 10 MiB, each followed by two bytes; alone, before a sheet and
\* inside the row data
LenOver == <<129, 128, 128, 5>>
LenMax == <<255, 255, 255, 127>>
LenLimit == <<128, 128, 128, 5>>
OversizedRecs == {<<Float>> \o l \o <<0, 0>> : l \in {LenOver, LenMax, LenLimit}}
OversizedStreams ==
  OversizedRecs \cup {r \o ScenarioSheet : r \in OversizedRecs}
    \cup {SheetDataRec \o Row0 \o r \o SheetDataEndRec : r \in OversizedRecs}

SharedStrings == [t |-> "st", strings |-> <<"Grade", "Header">>]

\* the sheets whose consumers call ws.Rows from inside their loop body
ReenteredStreams ==
  {DimRec \o SheetDataRec \o b \o SheetDataEndRec \o MergeCellRec : b \in Bodies(MaxBody - 1)}
    \cup {FullSheet, MergeSheet}

Inputs ==
  {[data |-> d, rels |-> FALSE, st |-> SharedStrings, nest |-> FALSE] :
      d \in SheetStreams \cup BareStreams \cup ExtraStreams
             \cup TruncatedStreams \cup RawStreams \cup ScenarioStreams
             \cup OversizedStreams \cup {MergeSheet}}
    \cup {[data |-> d, rels |-> TRUE, st |-> SharedStrings, nest |-> FALSE] :
             d \in MetaStreams}
    \cup {[data |-> HyperlinkOk \o ScenarioSheet, rels |-> FALSE, st |-> SharedStrings,
            nest |-> FALSE]}
    \cup {[data |-> d, rels |-> FALSE, st |-> SharedStrings, nest |-> TRUE] :
             d \in ReenteredStreams}

\* ------------------------------------------------------------------------
\* State
\* ------------------------------------------------------------------------
VARIABLES
  data,      \* ws.data: the sheet's byte stream
  rels,      \* ws.rels # nil
  st,        \* ws.stringTable
  ws,        \* the exported and pre-scan fields of the Worksheet
  openErr,   \* the error New returns ("nil" while none)
  pc,        \* "parse" | "skip" | "failed" | "open" | "rows" (Rows is about to
             \* call rdr.Next) | "yield" (a yield call of Rows is in progress)
  pos,       \* stream offset of the record.Reader in use
  last,      \* the most recent Reader.Next call of the reader in use: offset
             \* before it and result
  p1end,     \* the Reader.Next result that ended pass 1
  sparse,    \* argument of the Rows call in progress or last finished
  limit,     \* the consumer stops at its limit-th row (0: never stops)
  rowNum,    \* Rows: rowNum
  row,       \* Rows: row (<<>> is nil)
  stopped,   \* Rows: stopped
  out,       \* rows handed to yield in this iteration, in order
  fin,       \* "none" | "running" | "complete" | "stopped"
  recs,      \* cell records decoded into the open row, in order: the decoded
             \* cell, the record type, the payload length and dups at the time
  dups,      \* duplicate row markers ignored while the open row was open
  outRecs,   \* for each row in out: the recs and dups it was built from
  skipErr,   \* a Reader.Next call failed inside the SheetData skip loop
  ref,       \* output of the first iteration to end after opening, if uninterrupted
  site,      \* Rows: the call of yield in progress: "none" | "flush" | "fill"
             \* | "end" | "eof"
  pendR,     \* Rows: r, the index of the row marker being handled (-1: none)
  outer,     \* the iteration suspended in a yield call whose loop body
             \* started the one in progress (NoFrame: none)
  nest,      \* the consumers of this sheet call ws.Rows from their loop body
  fr,        \* a RecordReader in use on its own: payload, cursor, last call
  rt,        \* records written with biff12WriteRec and read back with a Reader
  df,        \* a (numFmtID, format string) pair and how it was classified
  nf,        \* a number, the parsed sections of its format and its rendering
  dt,        \* a date serial, the parsed section of its format and its rendering
  bf         \* a fractional part, a largest denominator and the fraction found

vars == <<data, rels, st, ws, openErr, pc, pos, last, p1end, sparse, limit,
          rowNum, row, stopped, out, fin, recs, dups, outRecs, skipErr, ref,
          site, pendR, outer, nest, fr, rt, df, nf, dt, bf>>

\* the worksheet and its reader
sheetVars == <<data, rels, st, ws, openErr, pc, pos, last, p1end, sparse, limit,
               rowNum, row, stopped, out, fin, recs, dups, outRecs, skipErr, ref,
               site, pendR, outer, nest>>

\* the variables of the components exercised on their own
unitVars == <<fr, rt, df, nf, dt, bf>>

rowsVars == <<sparse, limit, rowNum, row, stopped, out, fin, recs, dups, outRecs, ref,
              site, pendR, outer>>

NoCall == [recID |-> 0, data |-> <<>>, err |-> "nil", pos |-> 0, alloc |-> 0, idBytes |-> 0]

\* no RecordReader in use on its own
NoReader == [data |-> <<>>, pos |-> 0, op |-> "none", n |-> 0, before |-> 0,
             err |-> "nil", v |-> <<>>]

\* nothing written or read back
NoRoundTrip ==
  [recs |-> <<>>, bytes |-> <<>>, pos |-> 0, got |-> <<>>, err |-> "none",
   n |-> 0, lenRead |-> [v |-> 0, err |-> "none", pos |-> 0]]

\* nothing to classify
NoFormat == [id |-> 0, fmt |-> <<>>, done |-> FALSE, idle |-> TRUE,
             builtIn |-> FALSE, public |-> FALSE, render |-> FALSE, scan |-> FALSE,
             styles |-> FALSE, workbook |-> FALSE]

\* nothing to render
NoNumber == [val |-> 0, sections |-> <<>>, idle |-> TRUE, done |-> FALSE, sec |-> 0,
             useAbs |-> FALSE, path |-> "none", needsMinus |-> FALSE, out |-> <<>>]

\* no date to render
NoDate == [serial |-> 0, sec |-> <<>>, date1904 |-> FALSE, idle |-> TRUE, done |-> FALSE,
           pieces |-> <<>>, out |-> <<>>]

\* no fraction to find
NoFraction == [x |-> <<0, 1>>, maxDen |-> 1, idle |-> TRUE, done |-> FALSE,
               num |-> 0, den |-> 1]

\* New: the Worksheet literal, before ws.parse() runs
Init ==
  /\ fr = NoReader
  /\ rt = NoRoundTrip
  /\ df = NoFormat
  /\ nf = NoNumber
  /\ dt = NoDate
  /\ bf = NoFraction
  /\ \E in \in Inputs :
       data = in.data /\ rels = in.rels /\ st = in.st /\ nest = in.nest
  /\ ws = [Dimension |-> Nil, Cols |-> <<>>, Hyperlinks |-> {}, MergeCells |-> <<>>,
           Err |-> "nil", dataOffset |-> 0, hasSheetData |-> FALSE]
  /\ openErr = "nil"
  /\ pc = "parse"
  /\ pos = 0
  /\ last = [at |-> -1, res |-> NoCall]
  /\ p1end = NoCall
  /\ sparse = FALSE
  /\ limit = 0
  /\ rowNum = -1
  /\ row = <<>>
  /\ stopped = FALSE
  /\ out = <<>>
  /\ fin = "none"
  /\ recs = <<>>
  /\ dups = 0
  /\ outRecs = <<>>
  /\ skipErr = FALSE
  /\ ref = [state |-> "unset", sparse |-> FALSE, out |-> <<>>, stopped |-> FALSE]
  /\ site = "none"
  /\ pendR = -1
  /\ outer = [t |-> "nil"]

\* ------------------------------------------------------------------------
\* Pass 1: Worksheet.parse, one record per step
\* ------------------------------------------------------------------------
\* the hyperlink map after a HYPERLINK record: every cell of the range -> rID
AddHyperlinks(h, hl) ==
  LET keys == {<<hl.R + dr, hl.C + dc>> : dr \in 0..(hl.H - 1), dc \in 0..(hl.W - 1)}
  IN {e \in h : e.key \notin keys} \cup {[key |-> k, rid |-> hl.RID] : k \in keys}

\* the switch of the outer loop of parse, for a record read without error
ParseRecord(w, res, hasRels) ==
  CASE res.recID = Dimension ->
         LET d == parseDimensionRecord(res.data)
         IN IF d.err = "nil" THEN [w EXCEPT !.Dimension = d.v] ELSE w
    [] res.recID = Col ->
         LET c == parseColRecord(res.data)
         IN IF c.err = "nil" THEN [w EXCEPT !.Cols = Append(@, c.v)] ELSE w
    [] res.recID = SheetData ->
         [w EXCEPT !.dataOffset = res.pos, !.hasSheetData = TRUE]
    [] res.recID = MergeCell ->
         LET m == parseMergeCellRecord(res.data)
         IN IF m.err = "nil" THEN [w EXCEPT !.MergeCells = Append(@, m.v)] ELSE w
    [] res.recID = Hyperlink ->
         IF ~hasRels THEN w
         ELSE LET h == parseHyperlinkRecord(res.data)
              IN IF h.err # "nil" THEN w
                 ELSE [w EXCEPT !.Hyperlinks = AddHyperlinks(@, h.v)]
    [] OTHER -> w

\* one iteration of the outer loop of parse
ParseStep ==
  /\ pc = "parse"
  /\ LET res == ReaderNext(data, pos)
     IN /\ last' = [at |-> pos, res |-> res]
        /\ pos' = res.pos
        /\ IF res.err = "EOF"
           THEN /\ pc' = "open"
                /\ p1end' = res
                /\ UNCHANGED <<ws, openErr>>
           ELSE IF res.err # "nil"
                THEN /\ pc' = "failed"
                     /\ openErr' = res.err
                     /\ p1end' = res
                     /\ UNCHANGED ws
                ELSE /\ ws' = ParseRecord(ws, res, rels)
                     /\ pc' = IF res.recID = SheetData THEN "skip" ELSE "parse"
                     /\ UNCHANGED <<openErr, p1end>>
  /\ UNCHANGED <<data, rels, st, nest, skipErr>>
  /\ UNCHANGED rowsVars
  /\ UNCHANGED unitVars

\* how the skip loop ends when Reader.Next fails: any error, io.EOF
\* included, makes parse return an error
SkipErrorMutEOF(e) ==
  IF e = "EOF" THEN [pc |-> "open", openErr |-> "nil"]
  ELSE [pc |-> "failed", openErr |-> e]
\* (SkipErrorMutOpen: the skip loop ends parse without an error)
SkipErrorMutOpen(e) == [pc |-> "open", openErr |-> "nil"]
SkipError(e) == [pc |-> "failed", openErr |-> e]

\* one iteration of the loop that skips the records inside SheetData
SkipStep ==
  /\ pc = "skip"
  /\ LET res == ReaderNext(data, pos)
     IN /\ last' = [at |-> pos, res |-> res]
        /\ pos' = res.pos
        /\ skipErr' = (skipErr \/ res.err # "nil")
        /\ IF res.err # "nil"
           THEN /\ pc' = SkipError(res.err).pc
                /\ openErr' = SkipError(res.err).openErr
                /\ p1end' = res
           ELSE /\ pc' = IF res.recID = SheetDataEnd THEN "parse" ELSE "skip"
                /\ UNCHANGED <<openErr, p1end>>
  /\ UNCHANGED <<data, rels, st, nest, ws>>
  /\ UNCHANGED rowsVars
  /\ UNCHANGED unitVars

\* ------------------------------------------------------------------------
\* Pass 2: Worksheet.Rows.  One step runs Rows from a call of rdr.Next, or
\* from the return of a yield call, up to the next call of yield, the next
\* call of rdr.Next or the return of Rows.  While a yield call is in
\* progress the loop body of the consumer runs: it sees the worksheet, and
\* it may itself range over ws.Rows before it returns.
\* ------------------------------------------------------------------------
\* The consumer: yield returns true unless this row is its limit-th one.
\* n is the number of rows it has received, this one included.
YieldReturns(n, lim) == lim = 0 \/ n < lim

\* where Rows positions its reader: rdr.Seek(ws.dataOffset, io.SeekStart)
RowsSeekMutKeep(off, cur) == IF fin = "none" THEN off ELSE cur
RowsSeek(off, cur) == off

\* The head of the fill loop of dense mode, for rowNum < r-1 { rowNum++;
\* yield(blank) }, up to its call of yield: L carries the locals of Rows,
\* the rows handed to yield, and site, the call of yield in progress
FillGapMutNone(L, r, dim) == L
FillGapMutShort(L, r, dim) ==
  IF ~(L.rowNum < r - 2) THEN L
  ELSE [L EXCEPT !.rowNum = @ + 1,
                 !.out = Append(@, makeEmptyRow(L.rowNum + 1, dim)),
                 !.outRecs = Append(@, [recs |-> <<>>, dups |-> 0]),
                 !.site = "fill", !.r = r]
\* the loop running while rowNum < r: one blank row too many
FillGapMutInclusive(L, r, dim) ==
  IF ~(L.rowNum < r) THEN L
  ELSE [L EXCEPT !.rowNum = @ + 1,
                 !.out = Append(@, makeEmptyRow(L.rowNum + 1, dim)),
                 !.outRecs = Append(@, [recs |-> <<>>, dups |-> 0]),
                 !.site = "fill", !.r = r]
FillGap(L, r, dim) ==
  IF ~(L.rowNum < r - 1) THEN L
  ELSE [L EXCEPT !.rowNum = @ + 1,
                 !.out = Append(@, makeEmptyRow(L.rowNum + 1, dim)),
                 !.outRecs = Append(@, [recs |-> <<>>, dups |-> 0]),
                 !.site = "fill", !.r = r]

\* the fill loop returns from Rows when yield returned false: b is what
\* yield returned
\* (FillStopsMutInverted: it returns when yield returned true;
\*  FillStopsMutNever: it goes on whatever yield returned)
FillStopsMutInverted(b) == b
FillStopsMutNever(b) == FALSE
FillStops(b) == ~b

\* where a decoded cell goes in the row buffer: index c.C when it is inside
PlaceCellMutShift(rw, rn, c) ==
  IF c.C.hi = 0 /\ c.C.lo + 1 < Len(rw)
  THEN [rw EXCEPT ![c.C.lo + 2] = [R |-> rn, C |-> c.C.lo, V |-> c.V, Style |-> c.Style]]
  ELSE rw
PlaceCell(rw, rn, c) ==
  IF U32Less(c.C, U32Of(Len(rw)))
  THEN [rw EXCEPT ![U32Int(c.C) + 1] =
           [R |-> rn, C |-> U32Int(c.C), V |-> c.V, Style |-> c.Style]]
  ELSE rw

\* (r, c) lies in the merge area m
InRegion(m, r, c) == r >= m.R /\ r < m.R + m.H /\ c >= m.C /\ c < m.C + m.W

\* The locals of Rows, with the yielded rows, as one record: site is the
\* call of yield in progress ("none" when Rows is not inside one), r the
\* index of the row marker being handled, ret that Rows has returned
RowsLocals ==
  [rowNum |-> rowNum, row |-> row, stopped |-> stopped, out |-> out,
   recs |-> recs, dups |-> dups, outRecs |-> outRecs, ret |-> FALSE,
   site |-> "none", r |-> -1]

\* the call yield(row) for the open row: the buffer goes out as it is
FlushMutPropagate(L) ==
  LET anchorOf(c) ==
        {k \in 1..Len(ws.MergeCells) :
           InRegion(ws.MergeCells[k], L.rowNum, c) /\ ws.MergeCells[k].C # c}
      filled == [j \in 1..Len(L.row) |->
                   IF anchorOf(j - 1) = {} THEN L.row[j]
                   ELSE LET m == ws.MergeCells[CHOOSE k \in anchorOf(j - 1) : TRUE]
                        IN [L.row[j] EXCEPT !.V = L.row[m.C + 1].V]]
  IN [L EXCEPT !.out = Append(@, filled),
               !.outRecs = Append(@, [recs |-> L.recs, dups |-> L.dups])]
Flush(L) ==
  [L EXCEPT !.out = Append(@, L.row),
            !.outRecs = Append(@, [recs |-> L.recs, dups |-> L.dups])]

\* a ROW record with the index of the open row is skipped
IsDuplicateMutNever(r, rn) == FALSE
IsDuplicate(r, rn) == r = rn

\* from the fill loop to the opening of row r: the next blank row goes to
\* yield, or, the gap filled (and in sparse mode), rowNum = r and
\* row = makeEmptyRow(rowNum, dim)
OpenRow(L, r, sp, dim) ==
  IF ~sp /\ FillGap(L, r, dim).site = "fill" THEN FillGap(L, r, dim)
  ELSE [(IF sp THEN L ELSE FillGap(L, r, dim)) EXCEPT
          !.rowNum = r, !.row = makeEmptyRow(r, dim),
          !.recs = <<>>, !.dups = 0, !.r = -1]

\* case recID == biff12.Row, up to the first call of yield
OnRow(L, payload, sp, dim) ==
  LET pr == parseRowRecord(payload)
  IN IF pr.err # "nil" THEN L
     ELSE IF IsDuplicate(pr.r, L.rowNum) THEN [L EXCEPT !.dups = @ + 1]
     ELSE IF L.row # <<>> /\ ~L.stopped
          THEN [Flush(L) EXCEPT !.site = "flush", !.r = pr.r]
          ELSE IF L.stopped THEN [L EXCEPT !.ret = TRUE]
          ELSE OpenRow(L, pr.r, sp, dim)

\* case recID >= biff12.Blank && recID <= biff12.FormulaBoolErr
OnCell(L, payload, recID, table) ==
  IF L.row = <<>> THEN L
  ELSE LET c == parseCellRecord(payload, recID, table)
       IN IF c.err # "nil" THEN L
          ELSE [L EXCEPT !.row = PlaceCell(L.row, L.rowNum, c),
                         !.recs = Append(@, [C |-> c.C, V |-> c.V, Style |-> c.Style,
                                             recID |-> recID, len |-> Len(payload),
                                             dup |-> L.dups])]

\* the final yield, at SheetDataEnd (s = "end") and after the loop
\* (s = "eof"): the open row goes to yield, or Rows returns at once
\* (FinalFlushMutDrop: Rows returns without it)
FinalFlushMutDrop(L, s) == [L EXCEPT !.ret = TRUE]
FinalFlush(L, s) ==
  IF L.row # <<>> /\ ~L.stopped THEN [Flush(L) EXCEPT !.site = s]
  ELSE [L EXCEPT !.ret = TRUE]

\* one iteration of the loop of Rows, from the result res of rdr.Next up to
\* the first call of yield, the next iteration or the return
RowsBody(L, res, sp, dim, table) ==
  IF res.err # "nil" THEN FinalFlush(L, "eof")
  ELSE CASE res.recID = Row -> OnRow(L, res.data, sp, dim)
         [] res.recID >= Blank /\ res.recID <= FormulaBoolErr ->
              OnCell(L, res.data, res.recID, table)
         [] res.recID = SheetDataEnd -> FinalFlush(L, "end")
         [] OTHER -> L

\* Rows after the call of yield at L.site returned b, up to the next call
\* of yield, the next call of rdr.Next or the return
AfterYield(L, b, sp, dim) ==
  CASE L.site = "flush" ->
         IF ~b THEN [L EXCEPT !.stopped = TRUE, !.ret = TRUE, !.site = "none", !.r = -1]
         ELSE OpenRow([L EXCEPT !.site = "none"], L.r, sp, dim)
    [] L.site = "fill" ->
         IF FillStops(b) THEN [L EXCEPT !.ret = TRUE, !.site = "none", !.r = -1]
         ELSE OpenRow([L EXCEPT !.site = "none"], L.r, sp, dim)
    [] OTHER -> [L EXCEPT !.ret = TRUE, !.site = "none", !.r = -1]

\* the consumer returned false at some yield of this iteration
ConsumerStopped(o, lim) == lim > 0 /\ Len(o) >= lim

\* The reference output: what the first iteration to end after opening
\* yielded, if the consumer let it run to the end; stopped records that a
\* later iteration in the same mode was cut short by the consumer.
RefAfter(rf, sp, o, lim) ==
  IF rf.state = "unset"
  THEN IF ConsumerStopped(o, lim)
       THEN [state |-> "void", sparse |-> FALSE, out |-> <<>>, stopped |-> FALSE]
       ELSE [state |-> "set", sparse |-> sp, out |-> o, stopped |-> FALSE]
  ELSE IF rf.state = "set" /\ rf.sparse = sp /\ ConsumerStopped(o, lim)
       THEN [rf EXCEPT !.stopped = TRUE]
       ELSE rf

\* no iteration is suspended
NoFrame == [t |-> "nil"]
\* the iteration whose call of yield is in progress, as the loop body of
\* its consumer leaves it behind when it calls ws.Rows itself
Frame ==
  [t |-> "frame", sparse |-> sparse, limit |-> limit, rowNum |-> rowNum, row |-> row,
   stopped |-> stopped, out |-> out, recs |-> recs, dups |-> dups, outRecs |-> outRecs,
   pos |-> pos, last |-> last, site |-> site, pendR |-> pendR]

\* A call of Rows(sp) by a consumer with limit lim, up to the loop: by the
\* caller that opened the sheet, or, while a yield call of another
\* iteration is in progress, by the loop body of a consumer that re-enters
RowsStart ==
  /\ outer = NoFrame
  /\ pc = "open" \/ (pc = "yield" /\ nest)
  /\ \E sp \in BOOLEAN, lim \in 0..MaxLimit :
       /\ sparse' = sp
       /\ limit' = lim
       /\ ws' = [ws EXCEPT !.Err = "nil"]
       /\ out' = <<>>
       /\ outRecs' = <<>>
       /\ rowNum' = -1
       /\ row' = <<>>
       /\ stopped' = FALSE
       /\ recs' = <<>>
       /\ dups' = 0
       /\ site' = "none"
       /\ pendR' = -1
       /\ outer' = IF pc = "yield" THEN Frame ELSE NoFrame
       /\ IF ~ws.hasSheetData
          THEN /\ pc' = "open"
               /\ fin' = "complete"
               /\ ref' = RefAfter(ref, sp, <<>>, lim)
               /\ UNCHANGED pos
          ELSE /\ pc' = "rows"
               /\ fin' = "running"
               /\ pos' = RowsSeek(ws.dataOffset, pos)
               /\ UNCHANGED ref
  /\ UNCHANGED <<data, rels, st, nest, openErr, last, p1end, skipErr>>
  /\ UNCHANGED unitVars

\* the state of Rows after a step: at the next call of rdr.Next, inside the
\* next call of yield, or returned
RowsGoesOn(L) ==
  /\ rowNum' = L.rowNum
  /\ row' = L.row
  /\ stopped' = L.stopped
  /\ out' = L.out
  /\ recs' = L.recs
  /\ dups' = L.dups
  /\ outRecs' = L.outRecs
  /\ site' = L.site
  /\ pendR' = L.r
  /\ IF L.ret
     THEN /\ pc' = "open"
          /\ fin' = IF ConsumerStopped(L.out, limit) THEN "stopped" ELSE "complete"
          /\ ref' = RefAfter(ref, sparse, L.out, limit)
     ELSE /\ pc' = IF L.site = "none" THEN "rows" ELSE "yield"
          /\ UNCHANGED <<fin, ref>>

\* rdr.Next and the switch, up to the first call of yield
RowsStep ==
  /\ pc = "rows"
  /\ last' = [at |-> pos, res |-> ReaderNext(data, pos)]
  /\ pos' = ReaderNext(data, pos).pos
  /\ ws' = IF ReaderNext(data, pos).err \notin {"nil", "EOF"}
           THEN [ws EXCEPT !.Err = ReaderNext(data, pos).err] ELSE ws
  /\ RowsGoesOn(RowsBody(RowsLocals, ReaderNext(data, pos), sparse,
                         effectiveDim(ws.Dimension), st))
  /\ UNCHANGED <<data, rels, st, nest, openErr, p1end, sparse, limit, skipErr, outer>>
  /\ UNCHANGED unitVars

\* the loop body of the consumer ends and the call of yield returns
RowsYield ==
  /\ pc = "yield"
  /\ RowsGoesOn(AfterYield([RowsLocals EXCEPT !.site = site, !.r = pendR],
                           YieldReturns(Len(out), limit), sparse,
                           effectiveDim(ws.Dimension)))
  /\ UNCHANGED <<data, rels, st, nest, ws, openErr, pos, last, p1end, sparse, limit,
                 skipErr, outer>>
  /\ UNCHANGED unitVars

\* the iteration a loop body started has returned: the loop body goes on,
\* inside the call of yield of the iteration it belongs to
RowsResume ==
  /\ pc = "open"
  /\ outer # NoFrame
  /\ pc' = "yield"
  /\ fin' = "running"
  /\ sparse' = outer.sparse
  /\ limit' = outer.limit
  /\ rowNum' = outer.rowNum
  /\ row' = outer.row
  /\ stopped' = outer.stopped
  /\ out' = outer.out
  /\ recs' = outer.recs
  /\ dups' = outer.dups
  /\ outRecs' = outer.outRecs
  /\ pos' = outer.pos
  /\ last' = outer.last
  /\ site' = outer.site
  /\ pendR' = outer.pendR
  /\ outer' = NoFrame
  /\ UNCHANGED <<data, rels, st, nest, ws, openErr, p1end, skipErr, ref>>
  /\ UNCHANGED unitVars

Next == ParseStep \/ SkipStep \/ RowsStart \/ RowsStep \/ RowsYield \/ RowsResume

Spec == Init /\ [][Next]_vars

\* ------------------------------------------------------------------------
\* No worksheet: the state of the worksheet variables while a component is
\* exercised on its own
\* ------------------------------------------------------------------------
NoSheet ==
  /\ data = <<>> /\ rels = FALSE /\ st = Nil /\ nest = FALSE
  /\ ws = [Dimension |-> Nil, Cols |-> <<>>, Hyperlinks |-> {}, MergeCells |-> <<>>,
           Err |-> "nil", dataOffset |-> 0, hasSheetData |-> FALSE]
  /\ openErr = "nil"
  /\ pc = "none"
  /\ pos = 0
  /\ last = [at |-> -1, res |-> NoCall]
  /\ p1end = NoCall
  /\ sparse = FALSE
  /\ limit = 0
  /\ rowNum = -1
  /\ row = <<>>
  /\ stopped = FALSE
  /\ out = <<>>
  /\ fin = "none"
  /\ recs = <<>>
  /\ dups = 0
  /\ outRecs = <<>>
  /\ skipErr = FALSE
  /\ ref = [state |-> "unset", sparse |-> FALSE, out |-> <<>>, stopped |-> FALSE]
  /\ site = "none"
  /\ pendR = -1
  /\ outer = [t |-> "nil"]

\* ------------------------------------------------------------------------
\* record.RecordReader on its own: NewRecordReader(payload), then any
\* sequence of reads and skips
\* ------------------------------------------------------------------------
\* longest payload built from PayloadBytes
MaxPayload == 5
\* largest count passed to Skip and largest buffer passed to Read
MaxSkip == 3

PayloadBytes == {0, 1, 64}
RECURSIVE PayloadsUpTo(_)
PayloadsUpTo(n) ==
  IF n = 0 THEN {<<>>}
  ELSE LET B == PayloadsUpTo(n - 1) IN B \cup {b \o <<x>> : b \in B, x \in PayloadBytes}

\* the string "A", the double 42.0, and a string of two characters of which
\* only one is there
LongPayload == <<1, 0, 0, 0, 65, 0>> \o Double42 \o <<2, 0, 0, 0, 66, 0>>
Payloads ==
  PayloadsUpTo(MaxPayload) \cup {SubSeq(LongPayload, 1, k) : k \in 0..Len(LongPayload)}

\* NewRecordReader(p)
NewRecordReader(p) ==
  [data |-> p, pos |-> 0, op |-> "new", n |-> 0, before |-> 0, err |-> "nil", v |-> <<>>]

\* what the RecordReader calls leave alone
notFR == <<sheetVars, rt, df, nf, dt, bf>>

InitFR ==
  /\ NoSheet
  /\ rt = NoRoundTrip
  /\ df = NoFormat
  /\ nf = NoNumber
  /\ dt = NoDate
  /\ bf = NoFraction
  /\ \E p \in Payloads : fr = NewRecordReader(p)

\* the RecordReader after the call op (with argument n) returned res
AfterCall(op, n, res, v) ==
  [data |-> fr.data, pos |-> res.pos, op |-> op, n |-> n, before |-> fr.pos,
   err |-> res.err, v |-> v]

FRSkip ==
  /\ fr.op # "none"
  /\ \E n \in (-1)..MaxSkip :
       fr' = AfterCall("Skip", n, Skip(fr.data, fr.pos, n), <<>>)
  /\ UNCHANGED notFR

FRRead ==
  /\ fr.op # "none"
  /\ \E n \in 0..MaxSkip :
       LET res == Read(fr.data, fr.pos, n) IN fr' = AfterCall("Read", n, res, res.v)
  /\ UNCHANGED notFR

FRReadUint8 ==
  /\ fr.op # "none"
  /\ LET res == ReadUint8(fr.data, fr.pos) IN fr' = AfterCall("ReadUint8", 0, res, res.v)
  /\ UNCHANGED notFR

FRReadUint16 ==
  /\ fr.op # "none"
  /\ LET res == ReadUint16(fr.data, fr.pos) IN fr' = AfterCall("ReadUint16", 0, res, res.v)
  /\ UNCHANGED notFR

FRReadUint32 ==
  /\ fr.op # "none"
  /\ LET res == ReadUint32(fr.data, fr.pos) IN fr' = AfterCall("ReadUint32", 0, res, res.v)
  /\ UNCHANGED notFR

FRReadInt32 ==
  /\ fr.op # "none"
  /\ LET res == ReadInt32(fr.data, fr.pos) IN fr' = AfterCall("ReadInt32", 0, res, res.v)
  /\ UNCHANGED notFR

FRReadFloat ==
  /\ fr.op # "none"
  /\ LET res == ReadFloat(fr.data, fr.pos) IN fr' = AfterCall("ReadFloat", 0, res, res.v)
  /\ UNCHANGED notFR

FRReadDouble ==
  /\ fr.op # "none"
  /\ LET res == ReadDouble(fr.data, fr.pos) IN fr' = AfterCall("ReadDouble", 0, res, res.v)
  /\ UNCHANGED notFR

FRReadString ==
  /\ fr.op # "none"
  /\ LET res == ReadString(fr.data, fr.pos) IN fr' = AfterCall("ReadString", 0, res, res.v)
  /\ UNCHANGED notFR

NextFR ==
  \/ FRSkip \/ FRRead \/ FRReadUint8 \/ FRReadUint16 \/ FRReadUint32
  \/ FRReadInt32 \/ FRReadFloat \/ FRReadDouble \/ FRReadString

SpecFR == InitFR /\ [][NextFR]_vars

\* ------------------------------------------------------------------------
\* Writing records with biff12WriteRec and reading them back with
\* record.Reader (TestReaderNextSingleRecord, TestReaderMultipleRecords)
\* ------------------------------------------------------------------------
\* longest sequence of records written
MaxRecs == 2

\* n bytes 0xAA
Filler(n) == [i \in 1..n |-> 170]

\* record IDs of one to four bytes in the form the format stores them (every
\* byte but the last with the top bit set), and two numbers that are not
\* in that form (0x80, 0x101)
RoundTripIDs == {0, 7, 127, Dimension, Hyperlink, 98689, 25264513, 128, 257}
\* payloads whose length takes one and two bytes
RoundTripPayloads == {<<>>, <<222, 173>>, Filler(128)}
\* the longest payload with a one-byte length, and a payload whose length
\* takes three bytes
LargePayloads == {Filler(127), Filler(16384)}
\* payload lengths up to the limit of 10 MiB, at every width of the length
\* field and on both sides of each change of width
RoundTripLens == {0, 1, 127, 128, 300, 16383, 16384, 2097151, 2097152, maxRecordLen}

RoundTripRecs == [id : RoundTripIDs, payload : RoundTripPayloads]

RECURSIVE RecSeqs(_)
RecSeqs(n) ==
  IF n = 0 THEN {<<>>}
  ELSE LET B == RecSeqs(n - 1) IN B \cup {Append(b, r) : b \in B, r \in RoundTripRecs}

RoundTripInputs ==
  RecSeqs(MaxRecs)
    \cup {<<[id |-> Dimension, payload |-> p], [id |-> 7, payload |-> <<222, 173>>]>> :
            p \in LargePayloads}

\* the records written one after the other into one buffer
RECURSIVE WriteAll(_)
WriteAll(rs) ==
  IF rs = <<>> THEN <<>>
  ELSE biff12WriteRec(rs[1].id, rs[1].payload) \o WriteAll(Tail(rs))

\* what the round trip leaves alone
notRT == <<sheetVars, fr, df, nf, dt, bf>>

\* record.NewReader(bytes.NewReader(buf.Bytes()))
InitRT ==
  /\ NoSheet
  /\ fr = NoReader
  /\ df = NoFormat
  /\ nf = NoNumber
  /\ dt = NoDate
  /\ bf = NoFraction
  /\ \E rs \in RoundTripInputs, n \in RoundTripLens :
       /\ (rs = <<>> \/ n = 0)
       /\ rt = [recs |-> rs, bytes |-> WriteAll(rs), pos |-> 0, got |-> <<>>, err |-> "nil",
                n |-> n, lenRead |-> [v |-> 0, err |-> "none", pos |-> 0]]

\* one call of rdr.Next(); the reading stops at the first error
RTNext ==
  /\ rt.err = "nil"
  /\ LET res == ReaderNext(rt.bytes, rt.pos)
     IN rt' = [rt EXCEPT
                 !.pos = res.pos,
                 !.err = res.err,
                 !.got = IF res.err = "nil"
                         THEN Append(@, [id |-> res.recID, payload |-> res.data])
                         ELSE @]
  /\ UNCHANGED notRT

\* biff12WriteLen(n) into a buffer of its own, read back with readLen
RTLen ==
  /\ rt.err # "none" /\ rt.lenRead.err = "none"
  /\ rt' = [rt EXCEPT !.lenRead = readLen(biff12WriteLen(rt.n), 0)]
  /\ UNCHANGED notRT

NextRT == RTNext \/ RTLen

SpecRT == InitRT /\ [][NextRT]_vars

\* ------------------------------------------------------------------------
\* Date-format detection: dateformat.IsBuiltInDateID, dateformat.ScanFormatStr,
\* xlsb.IsDateFormat and the renderer's isDateFormat.  A format string is a
\* sequence of one-character strings.
\* ------------------------------------------------------------------------
Quote == "\""
NoRune == ""
DateTokens == {"d", "D", "m", "M", "y", "Y", "h", "H", "s", "S"}
DigitPlaceholders == {"0", "#", "?", "."}

\* IsBuiltInDateID without the time-only IDs 18-21
IsBuiltInDateIDMutNoTime(id) ==
  \/ id >= 14 /\ id <= 17
  \/ id = 22
  \/ id >= 27 /\ id <= 36
  \/ id >= 45 /\ id <= 47
  \/ id >= 50 /\ id <= 58
IsBuiltInDateID(id) ==
  \/ id >= 14 /\ id <= 22
  \/ id >= 27 /\ id <= 36
  \/ id >= 45 /\ id <= 47
  \/ id >= 50 /\ id <= 58

\* the e/E case of ScanFormatStr: a date token unless the last digit
\* placeholder seen is one of 0 # ? .
\* (EraTokenMutAlways: every e/E is a date token)
EraTokenMutAlways(lastDP) == TRUE
EraToken(lastDP) == lastDP \notin DigitPlaceholders

\* the loop of ScanFormatStr from character i on
RECURSIVE ScanLoop(_, _, _, _, _)
ScanLoop(f, i, inDoubleQuote, inBracket, lastDP) ==
  IF i > Len(f) THEN FALSE
  ELSE LET ch == f[i]
           hit == /\ ~inDoubleQuote /\ ~inBracket
                  /\ ch # Quote /\ ch # "["
                  /\ \/ ch \in DateTokens
                     \/ ch \in {"e", "E"} /\ EraToken(lastDP)
           q2 == IF inDoubleQuote THEN ch # Quote
                 ELSE IF inBracket THEN FALSE
                 ELSE ch = Quote
           b2 == IF inDoubleQuote THEN inBracket
                 ELSE IF inBracket THEN ch # "]"
                 ELSE ch = "["
           dp2 == IF ~q2 /\ ~b2 /\ ch \in DigitPlaceholders THEN ch ELSE lastDP
       IN IF hit THEN TRUE ELSE ScanLoop(f, i + 1, q2, b2, dp2)

ScanFormatStr(formatStr) == ScanLoop(formatStr, 1, FALSE, FALSE, NoRune)

\* xlsb.IsDateFormat: the public classifier
IsDateFormat(id, formatStr) ==
  IF id >= 14 /\ id <= 17 THEN TRUE
  ELSE IF id = 22 THEN TRUE
  ELSE IF id >= 27 /\ id <= 36 THEN TRUE
  ELSE IF id >= 45 /\ id <= 47 THEN TRUE
  ELSE IF id >= 50 /\ id <= 58 THEN TRUE
  ELSE IF id < 164 THEN FALSE
  ELSE ScanFormatStr(formatStr)

\* the renderer's isDateFormat
isDateFormat(id, fmtStr) ==
  IF IsBuiltInDateID(id) THEN TRUE
  ELSE IF id < 164 THEN FALSE
  ELSE ScanFormatStr(fmtStr)

\* the scan loop the styles and workbook packages each repeat, from
\* character i on: a character of T outside quotes and brackets
RECURSIVE ScanFor(_, _, _, _, _)
ScanFor(f, i, inDoubleQuote, inBracket, T) ==
  IF i > Len(f) THEN FALSE
  ELSE IF inDoubleQuote THEN ScanFor(f, i + 1, f[i] # Quote, inBracket, T)
  ELSE IF inBracket THEN ScanFor(f, i + 1, FALSE, f[i] # "]", T)
  ELSE IF f[i] = Quote THEN ScanFor(f, i + 1, TRUE, FALSE, T)
  ELSE IF f[i] = "[" THEN ScanFor(f, i + 1, FALSE, TRUE, T)
  ELSE IF f[i] \in T THEN TRUE
  ELSE ScanFor(f, i + 1, FALSE, FALSE, T)

\* the switch on the ID that both copies start with
DateIDSwitch(id) ==
  \/ id >= 14 /\ id <= 22
  \/ id >= 27 /\ id <= 36
  \/ id >= 45 /\ id <= 47
  \/ id >= 50 /\ id <= 58

\* styles.isDateFormatID
StylesTokens == {"d", "D", "m", "M", "y", "Y", "h", "H"}
styles_isDateFormatID(id, formatStr) ==
  IF DateIDSwitch(id) THEN TRUE
  ELSE IF id < 164 THEN FALSE
  ELSE ScanFor(formatStr, 1, FALSE, FALSE, StylesTokens)

\* workbook.isDateFormatID
WorkbookTokens == {"d", "D", "m", "M", "y", "Y", "h", "H", "s", "S"}
workbook_isDateFormatID(id, formatStr) ==
  IF DateIDSwitch(id) THEN TRUE
  ELSE IF id < 164 THEN FALSE
  ELSE ScanFor(formatStr, 1, FALSE, FALSE, WorkbookTokens)

\* longest format string over FormatChars
MaxFmt == 4
\* longest format string over AllFormatChars
MaxTok == 2

FormatChars == {"d", "s", "e", "E", "0", ".", Quote, "[", "]", "+"}
AllFormatChars == DateTokens \cup DigitPlaceholders \cup {"e", "E", Quote, "[", "]", "+", "x"}

RECURSIVE Words(_, _)
Words(A, n) ==
  IF n = 0 THEN {<<>>}
  ELSE LET B == Words(A, n - 1) IN B \cup {Append(b, x) : b \in B, x \in A}

FormatStrs == Words(FormatChars, MaxFmt) \cup Words(AllFormatChars, MaxTok)

\* the built-in IDs, each with an empty, a date and a numeric format string,
\* and custom IDs with every format string
BuiltInIDs == (-1)..163
CustomIDs == {164, 200}
FormatInputs ==
  (BuiltInIDs \X {<<>>, <<"y", "y", "y", "y">>, <<"0", ".", "0", "0">>})
    \cup (CustomIDs \X FormatStrs)

\* what the classification leaves alone
notDF == <<sheetVars, fr, rt, nf, dt, bf>>

InitDF ==
  /\ NoSheet
  /\ fr = NoReader
  /\ rt = NoRoundTrip
  /\ nf = NoNumber
  /\ dt = NoDate
  /\ bf = NoFraction
  /\ \E in \in FormatInputs :
       df = [NoFormat EXCEPT !.id = in[1], !.fmt = in[2], !.idle = FALSE]

\* the classifiers applied to the pair
DFClassify ==
  /\ ~df.idle /\ ~df.done
  /\ df' = [df EXCEPT !.done = TRUE,
                       !.builtIn = IsBuiltInDateID(df.id),
                       !.public = IsDateFormat(df.id, df.fmt),
                       !.render = isDateFormat(df.id, df.fmt),
                       !.scan = ScanFormatStr(df.fmt),
                       !.styles = styles_isDateFormatID(df.id, df.fmt),
                       !.workbook = workbook_isDateFormatID(df.id, df.fmt)]
  /\ UNCHANGED notDF

NextDF == DFClassify

SpecDF == InitDF /\ [][NextDF]_vars

\* ------------------------------------------------------------------------
\* Properties
\* ------------------------------------------------------------------------
\* s is the first Len(s) elements of t
IsPrefix(s, t) == Len(s) <= Len(t) /\ s = SubSeq(t, 1, Len(s))

\* an iteration has ended and its output is still in out
Finished == pc = "open" /\ fin \in {"complete", "stopped"}

\* C1: once the first iteration after opening has run uninterrupted, every
\* later iteration in the same mode reproduces its output from the first row
\* on: all of it when the consumer does not stop, and exactly the first
\* `limit` rows of it when the consumer stops - also after earlier
\* iterations were cut short.
C1_RestartReproduces ==
  (Finished /\ ref.state = "set" /\ ref.sparse = sparse)
    => IF fin = "complete"
       THEN out = ref.out
       ELSE Len(out) = limit /\ IsPrefix(out, ref.out)

\* a full iteration, after a stopped one in the same mode, with several rows
C1_Witness ==
  /\ Finished /\ fin = "complete"
  /\ ref.state = "set" /\ ref.sparse = sparse /\ ref.stopped
  /\ Len(out) >= 2

\* C2: Reader.Next returns io.EOF only when the call found no byte at all.
C2_EOFOnlyBeforeID ==
  (last.at >= 0 /\ last.res.err = "EOF") => last.at = Len(data)

\* Framing of the record that starts at offset p, read off the bytes.
\* k-byte variable-length field at offset p: k-1 bytes with the top bit set,
\* then one without.
FieldIs(p, k) ==
  /\ p + k <= Len(data)
  /\ data[p + k] < 128
  /\ \A j \in 1..(k - 1) : data[p + j] >= 128
HasField(p) == \E k \in 1..4 : FieldIs(p, k)
FieldLen(p) == CHOOSE k \in 1..4 : FieldIs(p, k)
\* four bytes in a row with the top bit set
BadContinuation(p) == p + 4 <= Len(data) /\ \A j \in 1..4 : data[p + j] >= 128
\* the stream ends inside the field
FieldCut(p) == Len(data) - p < 4 /\ \A j \in (p + 1)..Len(data) : data[j] >= 128
\* value of the length field at offset p
LenValue(p) ==
  LET k == FieldLen(p)
      RECURSIVE sum(_)
      sum(j) == IF j > k THEN 0 ELSE (data[p + j] % 128) * Pow128(j - 1) + sum(j + 1)
  IN sum(1)
\* a complete ID at p, followed by a length or payload the stream cuts short
CutAfterID(p) ==
  /\ HasField(p)
  /\ LET q == p + FieldLen(p)
     IN \/ FieldCut(q)
        \/ HasField(q) /\ LenValue(q) <= maxRecordLen
                       /\ q + FieldLen(q) + LenValue(q) > Len(data)
BadLength(p) == HasField(p) /\ BadContinuation(p + FieldLen(p))

\* C3: a record ID or a length with the continuation bit on its 4th byte,
\* and a stream that ends after a complete ID but inside the length or the
\* payload, make Reader.Next return an error that is not io.EOF.
C3_FramingErrorsAreErrors ==
  (last.at >= 0 /\ (BadContinuation(last.at) \/ BadLength(last.at) \/ CutAfterID(last.at)))
    => last.res.err \notin {"nil", "EOF"}

\* the stream ended inside the length field, after a complete ID
C3_Witness ==
  /\ last.at >= 0
  /\ HasField(last.at)
  /\ FieldCut(last.at + FieldLen(last.at))
  /\ last.res.err = "ErrReadingLength"

\* C4: when a Reader.Next call fails inside the SheetData skip loop of
\* pass 1 (end of stream or framing error), New returns an error and the
\* worksheet is never opened.
C4_CutInsideSheetDataFails ==
  skipErr => (pc = "failed" /\ openErr # "nil")

\* the stream ended between SheetData and SheetDataEnd
C4_Witness ==
  /\ skipErr
  /\ last.res.err = "EOF"
  /\ ws.hasSheetData
  /\ pc = "failed"

\* shortest payload that holds column, style and value of a cell record
MinPayload(id) ==
  CASE id \in {Float, FormulaFloat} -> 16
    [] id \in {Num, String, FormulaString} -> 12
    [] id \in {Bool, BoolErr, FormulaBool, FormulaBoolErr} -> 9
    [] OTHER -> 8

\* C5: a sheet only opens without error when pass 1 consumed the stream as
\* whole records up to its last byte (a stream cut inside a record is
\* reported), and no yielded cell comes from a cell record whose payload
\* ended before its style or value.
C5_CorruptStreamsFail ==
  /\ (pc = "open" /\ fin = "none") => last.at = Len(data)
  /\ \A i \in 1..Len(outRecs) : \A k \in 1..Len(outRecs[i].recs) :
        outRecs[i].recs[k].len >= MinPayload(outRecs[i].recs[k].recID)

\* C6 as claimed: inside every merge area exactly the anchor is non-empty.
C6_OnlyAnchorHasValue ==
  \A i \in 1..Len(out) : \A j \in 1..Len(out[i]) : \A k \in 1..Len(ws.MergeCells) :
     InRegion(ws.MergeCells[k], out[i][j].R, out[i][j].C)
       => (out[i][j].V.t # "nil"
             <=> (out[i][j].R = ws.MergeCells[k].R /\ out[i][j].C = ws.MergeCells[k].C))

\* the value of the last record for column c among the records rs of a row
StoredValue(rs, c) ==
  LET at == {n \in 1..Len(rs) : rs[n].C = U32Of(c)}
  IN IF at = {} THEN Nil
     ELSE rs[CHOOSE n \in at : \A x \in at : x <= n].V

\* C6, amended: inside every merge area each coordinate of a yielded row -
\* anchor or not - carries exactly what the stream stores for that row and
\* column (the value of its last cell record, Empty when there is none);
\* the anchor's value is never copied to another coordinate.
C6_MergeAreaAsStored ==
  \A i \in 1..Len(out) : \A j \in 1..Len(out[i]) : \A k \in 1..Len(ws.MergeCells) :
     InRegion(ws.MergeCells[k], out[i][j].R, out[i][j].C)
       => out[i][j].V = StoredValue(outRecs[i].recs, out[i][j].C)

\* a yielded row crossing a merge area: value at the anchor, none beside it
C6_Witness ==
  /\ Finished
  /\ \E i \in 1..Len(out) : \E k \in 1..Len(ws.MergeCells) :
       LET m == ws.MergeCells[k]
       IN /\ m.W >= 2 /\ Len(out[i]) >= m.C + 2
          /\ out[i][1].R = m.R
          /\ out[i][m.C + 1].V.t # "nil"
          /\ out[i][m.C + 2].V.t = "nil"

\* a dense iteration that the consumer let run to the end
DenseComplete == Finished /\ fin = "complete" /\ ~sparse /\ ws.Dimension.t # "nil"

\* C7 as claimed: a complete dense iteration yields at least Dimension.H rows.
C7_DenseAtLeastHeight == DenseComplete => Len(out) >= ws.Dimension.H

\* C7, amended: when the row data holds a row at or beyond the Dimension's
\* last row, a complete dense iteration yields at least Dimension.H rows.
C7_DenseReachesLastRow ==
  (DenseComplete /\ \E i \in 1..Len(out) :
                       out[i][1].R >= ws.Dimension.R + ws.Dimension.H - 1)
    => Len(out) >= ws.Dimension.H

\* rows 0..2 of a 3-row Dimension, one of them a blank filler
C7_Witness ==
  /\ DenseComplete
  /\ Len(out) >= ws.Dimension.H
  /\ \E i \in 1..Len(out) : out[i][1].R = ws.Dimension.R + ws.Dimension.H - 1
  /\ \E i \in 1..Len(out) : \A j \in 1..Len(out[i]) : out[i][j].V.t = "nil"

\* the index a ROW payload carries, when parseRowRecord accepts it
RowAccepted(p) == Len(p) >= 4 /\ p[4] = 0 /\ p[3] <= 15
RowIndex(p) == p[1] + 256 * p[2] + 65536 * p[3]
\* a row of n empty cells for row index r
BlankRow(r, n) == [c \in 1..n |-> [R |-> r, C |-> c - 1, V |-> Nil, Style |-> 0]]
BufferWidth ==
  IF ws.Dimension.t = "nil" THEN 1
  ELSE IF ws.Dimension.C + ws.Dimension.W <= 0 THEN 1
  ELSE ws.Dimension.C + ws.Dimension.W

\* a step of Rows on a row marker it accepts and that does not repeat the
\* index of the open row: the step that reads it, and every step that goes
\* on from a yield call made for it (the open row, a blank row)
MarkerStep ==
  \/ /\ pc = "rows"
     /\ last'.res.err = "nil" /\ last'.res.recID = Row
     /\ RowAccepted(last'.res.data)
     /\ RowIndex(last'.res.data) # rowNum
  \/ pc = "yield" /\ site \in {"flush", "fill"} /\ outer' = outer
\* the index that marker carries
MarkerIndex == IF pc = "rows" THEN RowIndex(last'.res.data) ELSE pendR

\* C8: in dense mode a row marker r is handled in this order, one call of
\* yield at a time: first the open row (if any) goes to yield; then, while
\* the last row handled is p < r-1, the blank row p+1 goes to yield and
\* becomes the last row handled; row r is opened only when no such p is
\* left; when the consumer stops at one of these calls Rows returns and
\* yields nothing more.
C8_DenseGapFill ==
  [][(MarkerStep /\ ~sparse)
     => IF pc = "rows" /\ row # <<>>
        THEN /\ pc' = "yield" /\ site' = "flush" /\ pendR' = MarkerIndex
             /\ out' = Append(out, row) /\ rowNum' = rowNum /\ row' = row
        ELSE IF pc = "yield" /\ ~YieldReturns(Len(out), limit)
        THEN pc' = "open" /\ out' = out
        ELSE IF rowNum < MarkerIndex - 1
        THEN /\ pc' = "yield" /\ site' = "fill" /\ pendR' = MarkerIndex
             /\ out' = Append(out, BlankRow(rowNum + 1, BufferWidth))
             /\ rowNum' = rowNum + 1 /\ row' = row
        ELSE /\ pc' = "rows" /\ out' = out
             /\ rowNum' = MarkerIndex /\ row' = BlankRow(MarkerIndex, BufferWidth)]_vars

\* the merge fixture in dense mode, marker 4 arriving while row 2 is open:
\* row 2 went to yield, blank row 3 is inside its yield call, and row 4 is
\* not open yet (row is still the buffer of row 2)
C8_Witness ==
  /\ data = MergeSheet /\ ~sparse
  /\ pc = "yield" /\ site = "fill" /\ pendR = 4
  /\ rowNum = 3 /\ row = out[3]
  /\ Len(out) = 4
  /\ out[1][1].V.t = "string" /\ out[3][1].R = 2
  /\ out[4] = BlankRow(3, BufferWidth)

\* C9: a row marker with the index of the open row changes nothing: no
\* row is yielded, the open row keeps its cells and stays open.
C9_DuplicateRowIgnored ==
  [][(/\ pc = "rows"
      /\ last'.res.err = "nil" /\ last'.res.recID = Row
      /\ RowAccepted(last'.res.data)
      /\ RowIndex(last'.res.data) = rowNum)
     => (pc' = "rows" /\ out' = out /\ row' = row /\ rowNum' = rowNum
         /\ recs' = recs /\ stopped' = stopped)]_vars

\* one yielded row holds a cell decoded before a duplicate marker and a
\* cell decoded after it
C9_Witness ==
  \E i \in 1..Len(out) :
     /\ outRecs[i].dups >= 1
     /\ \E a, b \in 1..Len(outRecs[i].recs) :
          LET ca == outRecs[i].recs[a]
              cb == outRecs[i].recs[b]
          IN /\ ca.dup = 0 /\ cb.dup >= 1 /\ ca.C # cb.C
             /\ out[i][U32Int(ca.C) + 1].V = ca.V /\ ca.V.t # "nil"
             /\ out[i][U32Int(cb.C) + 1].V = cb.V /\ cb.V.t # "nil"

\* the cell a record c gives in the row rw
CellOf(rw, c) == [R |-> rw[1].R, C |-> U32Int(c.C), V |-> c.V, Style |-> c.Style]

\* C10 as claimed: every cell record decoded while a row was open is in
\* that row, at its column, when the row is yielded.
C10_EveryCellDelivered ==
  \A i \in 1..Len(out) : \A k \in 1..Len(outRecs[i].recs) :
     LET c == outRecs[i].recs[k]
     IN /\ U32Less(c.C, U32Of(Len(out[i])))
        /\ out[i][U32Int(c.C) + 1] = CellOf(out[i], c)

\* C10, amended: a cell record decoded while a row was open is in that row
\* when it is yielded, at the position of its column and with the row's
\* index, its column, value and style, provided its column lies inside the
\* row buffer (below Dimension.C + Dimension.W, or 1 without a Dimension)
\* and no later cell record of the same row has the same column.
C10_CellDeliveredAtColumn ==
  \A i \in 1..Len(out) : \A k \in 1..Len(outRecs[i].recs) :
     LET rs == outRecs[i].recs
         c  == rs[k]
     IN (/\ U32Less(c.C, U32Of(Len(out[i])))
         /\ \A n \in (k + 1)..Len(rs) : rs[n].C # c.C)
        => out[i][U32Int(c.C) + 1] = CellOf(out[i], c)

\* a yielded row with two cell records, each at its own column
C10_Witness ==
  \E i \in 1..Len(out) :
     /\ Len(outRecs[i].recs) = 2
     /\ outRecs[i].dups = 0
     /\ outRecs[i].recs[1].C = U32Of(0)
     /\ outRecs[i].recs[2].C = U32Of(1)
     /\ out[i][1] = CellOf(out[i], outRecs[i].recs[1])
     /\ out[i][2] = CellOf(out[i], outRecs[i].recs[2])
     /\ out[i][2].V.t # "nil" /\ out[i][2].Style > 0

\* the cell (row 0, column 0, 42.0, style 0); 42.0 is 0x4045000000000000
Cell42 == [R |-> 0, C |-> 0, V |-> F64Bits(64, 69, 0, 0, 0, 0, 0, 0), Style |-> 0]

\* a sparse iteration that the consumer let run to the end
SparseComplete == Finished /\ fin = "complete" /\ sparse

\* C11 as claimed: the sheet stream made of the row marker 0 and the Float
\* cell alone, iterated in sparse mode, yields exactly one row holding the
\* single cell (0, 0, 42.0).
C11_ScenarioYieldsOneRow ==
  (SparseComplete /\ data = ScenarioBare) => out = <<<<Cell42>>>>

\* C11, amended: the two records between a SheetData and a SheetDataEnd
\* record, iterated in sparse mode, yield exactly one row holding the single
\* cell (0, 0, 42.0).
C11_ScenarioInSheetData ==
  (SparseComplete /\ data = ScenarioSheet) => out = <<<<Cell42>>>>

\* the complete sparse iteration over the enclosed scenario
C11_Witness ==
  /\ SparseComplete /\ data = ScenarioSheet
  /\ Len(out) = 1 /\ out[1][1].V.t = "float"

\* the yielded rows carry strictly increasing row indices
StrictlyIncreasingRows ==
  \A i \in 1..(Len(out) - 1) : out[i][1].R < out[i + 1][1].R

\* The indices of the row markers parseRowRecord accepts among the records
\* of stream d from offset p up to SheetDataEnd (or the first record that
\* cannot be read), in stream order.
RECURSIVE RowMarkers(_, _)
RowMarkers(d, p) ==
  LET res == ReaderNext(d, p)
  IN IF res.err # "nil" \/ res.recID = SheetDataEnd THEN <<>>
     ELSE IF res.recID = Row /\ RowAccepted(res.data)
          THEN <<RowIndex(res.data)>> \o RowMarkers(d, res.pos)
          ELSE RowMarkers(d, res.pos)

NonDecreasing(q) == \A i \in 1..(Len(q) - 1) : q[i] <= q[i + 1]

\* C12 as claimed: in dense and in sparse mode each yielded row has an index
\* strictly greater than that of the row yielded before it.
C12_RowsInIncreasingOrder == StrictlyIncreasingRows

\* C12, amended: when the row markers of the row data carry non-decreasing
\* indices, each yielded row has an index strictly greater than that of the
\* row yielded before it, in dense and in sparse mode.
C12_IncreasingWhenMarkersAre ==
  (ws.hasSheetData /\ NonDecreasing(RowMarkers(data, ws.dataOffset)))
    => StrictlyIncreasingRows

\* a complete dense iteration over markers 0, 0, 2: rows 0, 1, 2
C12_Witness ==
  /\ Finished /\ fin = "complete" /\ ~sparse
  /\ ws.hasSheetData
  /\ RowMarkers(data, ws.dataOffset) = <<0, 0, 2>>
  /\ Len(out) = 3 /\ StrictlyIncreasingRows

\* the k-th little-endian uint32 field (k = 0, 1, ...) of payload p
Field32(p, k) == LittleEndianUint32(p[4 * k + 1], p[4 * k + 2], p[4 * k + 3], p[4 * k + 4])

\* the payload p holds the fields r1, r2, c1, c2 and its last row or column
\* is smaller than its first, or lies beyond the largest valid index
InvalidRange(p) ==
  /\ Len(p) >= 16
  /\ \/ U32Less(Field32(p, 1), Field32(p, 0))
     \/ U32Less(Field32(p, 3), Field32(p, 2))
     \/ U32Less(U32Of(1048575), Field32(p, 1))
     \/ U32Less(U32Of(16383), Field32(p, 3))

\* C13: a Dimension, merge-region or hyperlink record with an invalid range
\* leaves the Dimension, the merge regions and the hyperlinks as they were,
\* raises no error, and pass 1 goes on with the record after it.
C13_InvalidRangeRejected ==
  [][(/\ pc = "parse"
      /\ last'.res.err = "nil"
      /\ last'.res.recID \in {Dimension, MergeCell, Hyperlink}
      /\ InvalidRange(last'.res.data))
     => (/\ ws' = ws /\ pc' = "parse" /\ openErr' = "nil"
         /\ pos' = last'.res.pos)]_vars

\* a sheet opened and iterated although its Dimension record was rejected:
\* no Dimension, the valid merge region kept, the row yielded
C13_Witness ==
  /\ Finished /\ fin = "complete"
  /\ data = DimBadOrder \o MergeCellRec \o ScenarioSheet
  /\ openErr = "nil"
  /\ ws.Dimension = Nil /\ Len(ws.MergeCells) = 1 /\ ws.Hyperlinks = {}
  /\ out = <<<<Cell42>>>>

\* C14: when the record at the offset of a Reader.Next call has a complete
\* ID and a complete length field declaring more than 10 MiB, the call
\* returns an error, has made no payload buffer and has read nothing past
\* the length field.
C14_OversizedFailsBeforeAlloc ==
  (/\ last.at >= 0
   /\ HasField(last.at)
   /\ HasField(last.at + FieldLen(last.at))
   /\ LenValue(last.at + FieldLen(last.at)) > 10485760)
    => LET q == last.at + FieldLen(last.at)
       IN /\ last.res.err \notin {"nil", "EOF"}
          /\ last.res.alloc = 0
          /\ last.res.data = <<>>
          /\ last.res.pos = q + FieldLen(q)

\* a call that met a declared length of 10 MiB + 1 with payload bytes behind it
C14_Witness ==
  /\ last.at >= 0
  /\ last.res.err = "ErrTooLong"
  /\ HasField(last.at)
  /\ LenValue(last.at + FieldLen(last.at)) = 10485761
  /\ last.res.pos < Len(data)

\* the bytes the last RecordReader call needed: the width of the value, the
\* count for Skip and Read, and for ReadString the 4-byte count plus two
\* bytes per character when the count itself could be read
FRNeed ==
  LET left == Len(fr.data) - fr.before
  IN CASE fr.op \in {"Skip", "Read"} -> fr.n
       [] fr.op = "ReadUint8" -> 1
       [] fr.op = "ReadUint16" -> 2
       [] fr.op \in {"ReadUint32", "ReadInt32", "ReadFloat"} -> 4
       [] fr.op = "ReadDouble" -> 8
       [] fr.op = "ReadString" ->
            IF left < 4 THEN 4
            ELSE LET c == Field32(SubSeq(fr.data, fr.before + 1, fr.before + 4), 0)
                 IN IF c.hi >= 16384 THEN Len(fr.data) + 1 ELSE 4 + 2 * U32Int(c)
       [] OTHER -> 0

\* what a failed call hands back: the zero value of its result type
FRZero ==
  CASE fr.op \in {"ReadUint8", "ReadUint16", "ReadInt32"} -> 0
    [] fr.op = "ReadUint32" -> U32Of(0)
    [] fr.op \in {"ReadFloat", "ReadDouble"} -> Nil
    [] OTHER -> <<>>

\* C15: after any sequence of reads and skips, a read or skip that needs
\* more bytes than the payload has left returns an error and the zero value,
\* and the cursor stays inside the payload.
C15_UnderflowFails ==
  (fr.op \notin {"none", "new"} /\ FRNeed > Len(fr.data) - fr.before)
    => (fr.err # "nil" /\ fr.v = FRZero /\ fr.pos <= Len(fr.data))

\* after successful earlier calls, a ReadString whose count was readable
\* but whose characters are not all there has failed
C15_Witness ==
  /\ fr.op = "ReadString"
  /\ fr.before > 0
  /\ Len(fr.data) - fr.before >= 4
  /\ fr.err = "ErrUnexpectedEOF"
  /\ fr.v = <<>>

\* a record ID in the form the format stores it: below 2^31, and of its
\* bytes (least significant first, up to the last non-zero one) every one
\* but the last has the top bit set and the last has it clear
ValidRecordID(id) ==
  \E k \in 1..4 :
     /\ id \div Pow256(k - 1) < 128
     /\ (k > 1 => id \div Pow256(k - 1) >= 1)
     /\ \A j \in 1..(k - 1) : (id \div Pow256(j - 1)) % 256 >= 128

\* C16: records with valid IDs, written as variable-length ID, LEB128
\* length and payload and read back with Reader.Next, come back as the same
\* (ID, payload) pairs in the same order, and then Next returns io.EOF; a
\* payload length up to 10 MiB written as LEB128 is read back as itself.
C16_RoundTrip ==
  /\ (rt.err \notin {"none", "nil"} /\ \A i \in 1..Len(rt.recs) : ValidRecordID(rt.recs[i].id))
       => (rt.err = "EOF" /\ rt.got = rt.recs /\ rt.pos = Len(rt.bytes))
  /\ rt.lenRead.err # "none" => (rt.lenRead.err = "nil" /\ rt.lenRead.v = rt.n)

\* two records read back, the first with a two-byte ID and a length field
\* of more than one byte
C16_Witness ==
  /\ rt.err = "EOF"
  /\ Len(rt.got) = 2 /\ rt.got = rt.recs
  /\ rt.got[1].id >= 256 /\ Len(rt.got[1].payload) >= 128

\* a complete iteration has just ended, and the first iteration after
\* opening was a complete one in the other mode
BothModesComplete ==
  Finished /\ fin = "complete" /\ ref.state = "set" /\ ref.sparse # sparse

\* the number of rows of the complete iterations in sparse and in dense mode
SparseCount == IF sparse THEN Len(out) ELSE Len(ref.out)
DenseCount == IF sparse THEN Len(ref.out) ELSE Len(out)

\* C17: for one sheet, a complete sparse iteration never yields more rows
\* than a complete dense iteration.
C17_SparseAtMostDense == BothModesComplete => SparseCount <= DenseCount

\* a sheet with a gap: two rows in sparse mode, three in dense mode
C17_Witness ==
  BothModesComplete /\ SparseCount = 2 /\ DenseCount = 3

\* the built-in date and time IDs: 14-22, 27-36, 45-47, 50-58
InDateRanges(id) == id \in (14..22) \cup (27..36) \cup (45..47) \cup (50..58)

\* C18 as claimed: a built-in ID is classified as date-like exactly when it
\* lies in 14-22, 27-36, 45-47 or 50-58, by IsBuiltInDateID, by the
\* renderer's isDateFormat and by the public IsDateFormat, whatever the
\* format string.
C18_BuiltInDateIDs ==
  (df.done /\ df.id < 164)
    => /\ df.builtIn = InDateRanges(df.id)
       /\ df.render = InDateRanges(df.id)
       /\ df.public = InDateRanges(df.id)

\* C18, amended: IsBuiltInDateID and the renderer's isDateFormat classify a
\* built-in ID as date-like exactly when it lies in 14-22, 27-36, 45-47 or
\* 50-58; the public IsDateFormat does so exactly for the same IDs without
\* the time-only 18-21; all of them whatever the format string.
C18_BuiltInDateIDsByClassifier ==
  (df.done /\ df.id < 164)
    => /\ df.builtIn = InDateRanges(df.id)
       /\ df.render = InDateRanges(df.id)
       /\ df.public = (InDateRanges(df.id) /\ df.id \notin 18..21)

\* the time-only ID 20 with a numeric format string, classified
C18_Witness ==
  /\ df.done /\ df.id = 20 /\ df.fmt = <<"0", ".", "0", "0">>
  /\ df.builtIn /\ df.render /\ ~df.public

\* the format string without its double-quoted literals and its bracketed
\* sections (an unclosed one runs to the end); mode is "q" inside a
\* literal, "b" inside a section, "n" outside
RECURSIVE StripFrom(_, _, _)
StripFrom(f, i, mode) ==
  IF i > Len(f) THEN <<>>
  ELSE CASE mode = "q" -> StripFrom(f, i + 1, IF f[i] = Quote THEN "n" ELSE "q")
         [] mode = "b" -> StripFrom(f, i + 1, IF f[i] = "]" THEN "n" ELSE "b")
         [] OTHER ->
              IF f[i] = Quote THEN StripFrom(f, i + 1, "q")
              ELSE IF f[i] = "[" THEN StripFrom(f, i + 1, "b")
              ELSE <<f[i]>> \o StripFrom(f, i + 1, "n")
Strip(f) == StripFrom(f, 1, "n")

\* g holds one of d D m M y Y h H s S, or an e or E with none of 0 # ? .
\* anywhere before it
HasDateToken(g) ==
  \E i \in 1..Len(g) :
     \/ g[i] \in {"d", "D", "m", "M", "y", "Y", "h", "H", "s", "S"}
     \/ /\ g[i] \in {"e", "E"}
        /\ \A j \in 1..(i - 1) : g[j] \notin {"0", "#", "?", "."}

\* C19: a custom ID (164 or above) is classified as date-like exactly when
\* the format string, outside double-quoted literals and bracketed
\* sections, holds one of d D m M y Y h H s S, or an e or E not preceded by
\* one of 0 # ? .
C19_CustomDateFormats ==
  (df.done /\ df.id >= 164)
    => /\ df.scan = HasDateToken(Strip(df.fmt))
       /\ df.public = HasDateToken(Strip(df.fmt))
       /\ df.render = HasDateToken(Strip(df.fmt))

\* an E after a placeholder and a sign: an exponent marker, not date-like
C19_Witness ==
  /\ df.done /\ df.id >= 164
  /\ df.fmt = <<"0", "+", "E", "+">>
  /\ ~df.scan /\ ~df.public /\ ~df.render


\* ------------------------------------------------------------------------
\* Number formats: formatFloat from the parsed sections on (selectSection,
\* renderNumber, renderGeneral)
\* ------------------------------------------------------------------------
\* A number is a count of 1/Unit, which float64 holds exactly.  A format is
\* the sequence of sections the format parser returned for it; a section is
\* the sequence of its Items; a token is its TType, its TValue (a sequence of
\* characters) and its Parts.
Unit == 8

Part(t, v) == [TType |-> t, TValue |-> v]
Tok(t, v) == [TType |-> t, TValue |-> v, Parts |-> <<>>]
Literal(v) == Tok("Literal", v)
Condition(op, operand) ==
  [TType |-> "Condition", TValue |-> op \o operand,
   Parts |-> <<Part("Operator", op), Part("Operand", operand)>>]

SetMin(S) == CHOOSE x \in S : \A y \in S : x <= y
SetMax(S) == CHOOSE x \in S : \A y \in S : x >= y
AbsInt(x) == IF x < 0 THEN -x ELSE x
Repeat(c, n) == [i \in 1..n |-> c]

DigitChar(d) == <<"0", "1", "2", "3", "4", "5", "6", "7", "8", "9">>[d + 1]
DigitValue(c) ==
  CASE c = "0" -> 0 [] c = "1" -> 1 [] c = "2" -> 2 [] c = "3" -> 3 [] c = "4" -> 4
    [] c = "5" -> 5 [] c = "6" -> 6 [] c = "7" -> 7 [] c = "8" -> 8 [] c = "9" -> 9
    [] OTHER -> -1

\* strconv.FormatInt(n, 10) for n >= 0
RECURSIVE Digits(_)
Digits(n) == IF n < 10 THEN <<DigitChar(n)>> ELSE Append(Digits(n \div 10), DigitChar(n % 10))

RECURSIVE DigitsValue(_)
DigitsValue(s) ==
  IF s = <<>> THEN 0 ELSE 10 * DigitsValue(SubSeq(s, 1, Len(s) - 1)) + DigitValue(s[Len(s)])

\* strconv.ParseFloat on the operand of a condition: a decimal integer with
\* an optional sign parses; the other operand texts of the inputs do not
Unsigned(s) == IF s # <<>> /\ Head(s) \in {"-", "+"} THEN Tail(s) ELSE s
IsDigitString(b) == b # <<>> /\ \A i \in 1..Len(b) : DigitValue(b[i]) >= 0

ParseFloat(s) ==
  IF IsDigitString(Unsigned(s))
  THEN [ok |-> TRUE,
        v |-> (IF Head(s) = "-" THEN -1 ELSE 1) * DigitsValue(Unsigned(s)) * Unit]
  ELSE [ok |-> FALSE, v |-> 0]

evalCondition(val, op, operand) ==
  CASE op = <<"<">> -> val < operand
    [] op = <<"<", "=">> -> val <= operand
    [] op = <<">">> -> val > operand
    [] op = <<">", "=">> -> val >= operand
    [] op = <<"<", ">">> -> val # operand
    [] op = <<"=">> -> val = operand
    [] OTHER -> FALSE

\* the Condition tokens extractCondition does not pass over: two parts and an
\* operand that parses
ConditionIdxs(sec) ==
  {i \in 1..Len(sec) : /\ sec[i].TType = "Condition"
                        /\ Len(sec[i].Parts) >= 2
                        /\ ParseFloat(sec[i].Parts[2].TValue).ok}

ConditionOf(tok) ==
  [ok |-> TRUE, op |-> tok.Parts[1].TValue, operand |-> ParseFloat(tok.Parts[2].TValue).v]

FirstCondition(sec, I) ==
  IF I = {} THEN [ok |-> FALSE, op |-> <<>>, operand |-> 0] ELSE ConditionOf(sec[SetMin(I)])

\* extractCondition: the first such token of the section
extractCondition(sec) == FirstCondition(sec, ConditionIdxs(sec))

\* the section has a condition and val satisfies it
ConditionHoldsMutAny(sec, val, c) == c.ok
ConditionHolds(sec, val, c) == c.ok /\ evalCondition(val, c.op, c.operand)

\* selectSection: the index of the section used for val, and useAbs
SelectAmongMutZeroFirst(n, val, conds, hits) ==
  IF hits # {} THEN [sec |-> SetMin(hits), useAbs |-> TRUE]
  ELSE IF conds # {}
    THEN IF conds # 1..n THEN [sec |-> SetMax((1..n) \ conds), useAbs |-> FALSE]
         ELSE [sec |-> n, useAbs |-> TRUE]
  ELSE [sec |-> IF val < 0 /\ n >= 2 THEN 2 ELSE 1, useAbs |-> FALSE]

SelectAmong(n, val, conds, hits) ==
  IF hits # {} THEN [sec |-> SetMin(hits), useAbs |-> TRUE]
  ELSE IF conds # {}
    THEN IF conds # 1..n THEN [sec |-> SetMax((1..n) \ conds), useAbs |-> FALSE]
         ELSE [sec |-> n, useAbs |-> TRUE]
  ELSE IF n = 1 THEN [sec |-> 1, useAbs |-> FALSE]
  ELSE IF n = 2 THEN [sec |-> IF val < 0 THEN 2 ELSE 1, useAbs |-> FALSE]
  ELSE [sec |-> IF val > 0 THEN 1 ELSE IF val < 0 THEN 2 ELSE 3, useAbs |-> FALSE]

selectSection(sections, val) ==
  SelectAmong(Len(sections), val,
              {i \in 1..Len(sections) : extractCondition(sections[i]).ok},
              {i \in 1..Len(sections) :
                 ConditionHolds(sections[i], val, extractCondition(sections[i]))})

\* renderGeneral, for magnitudes below 1e11 with at most ten significant
\* digits: a whole number takes the FormatInt branch, any other the 'G' one
ZeroPad(s, n) == Repeat("0", n - Len(s)) \o s
TrimRightZeros(s) == SubSeq(s, 1, SetMax({k \in 1..Len(s) : s[k] # "0"} \cup {0}))

GeneralDigits(a) ==
  IF a % Unit = 0 THEN Digits(a \div Unit)
  ELSE Digits(a \div Unit) \o <<".">>
         \o TrimRightZeros(ZeroPad(Digits(((a % Unit) * 1000) \div Unit), 3))

renderGeneral(val) == (IF val < 0 THEN <<"-">> ELSE <<>>) \o GeneralDigits(AbsInt(val))

\* currencySymbol
\* s up to its first '-'
BeforeDash(s) == SubSeq(s, 1, SetMin({i \in 1..Len(s) : s[i] = "-"} \cup {Len(s) + 1}) - 1)
DropDollar(s) == IF s # <<>> /\ Head(s) = "$" THEN Tail(s) ELSE s
FirstCurrencyString(parts, P) == IF P = {} THEN <<>> ELSE parts[SetMin(P)].TValue

CurrencyOf(raw, parts, P) ==
  IF Len(raw) < 3 \/ raw[1] # "[" \/ raw[2] # "$" THEN <<>>
  ELSE IF P # {} THEN FirstCurrencyString(parts, P)
  ELSE IF raw[Len(raw)] = "]" THEN BeforeDash(DropDollar(SubSeq(raw, 2, Len(raw) - 1)))
  ELSE raw

currencySymbol(tok) ==
  CurrencyOf(tok.TValue, tok.Parts,
             {i \in 1..Len(tok.Parts) : tok.Parts[i].TType = "CurrencyString"})

\* insertThousandsSep
RECURSIVE GroupsFrom(_, _)
GroupsFrom(s, i) ==
  IF i > Len(s) THEN <<>> ELSE <<",">> \o SubSeq(s, i, i + 2) \o GroupsFrom(s, i + 3)

GroupsAfter(s, rem) == SubSeq(s, 1, rem) \o GroupsFrom(s, rem + 1)

insertThousandsSep(s) ==
  IF Len(s) <= 3 THEN s ELSE GroupsAfter(s, IF Len(s) % 3 = 0 THEN 3 ELSE Len(s) % 3)

\* -- renderNumber, pass 1: the format metadata --------------------------
DigitTypes == {"ZeroPlaceHolder", "HashPlaceHolder", "DigitalPlaceHolder"}

\* lastDigitIdx, counted from 1 (0: the section has no digit placeholder)
lastDigitIdx(sec) == SetMax({0} \cup {i \in 1..Len(sec) : sec[i].TType \in DigitTypes})

IsComma(tok) ==
  tok.TType = "ThousandsSeparator" \/ (tok.TType = "Literal" /\ tok.TValue = <<",">>)

\* m.trailingCommas: the comma tokens that follow the last digit placeholder
CommasAfter(sec, l) ==
  IF l = 0 THEN 0
  ELSE Cardinality({k \in 1..(Len(sec) - l) : \A j \in 1..k : IsComma(sec[l + j])})

trailingCommas(sec) == CommasAfter(sec, lastDigitIdx(sec))

\* afterDecimal when the pass reaches token i
afterDecimalAt(sec, i) == \E j \in 1..(i - 1) : sec[j].TType = "DecimalPoint"

\* the placeholder characters of type t on one side of the decimal point
RECURSIVE PlaceCount(_, _, _, _)
PlaceCount(sec, i, t, after) ==
  IF i = 0 THEN 0
  ELSE PlaceCount(sec, i - 1, t, after)
         + (IF sec[i].TType = t /\ afterDecimalAt(sec, i) = after
            THEN Len(sec[i].TValue) ELSE 0)

\* the '?' a DecimalPoint token carries before its '.'
\* the index of the first '.' of f, Len(f) + 1 if it has none
DotIdx(f) == SetMin({k \in 1..Len(f) : f[k] = "."} \cup {Len(f) + 1})

QuestionsBeforeDot(v) == Cardinality({k \in 1..(DotIdx(v) - 1) : v[k] = "?"})

RECURSIVE DecimalQuestions(_, _)
DecimalQuestions(sec, i) ==
  IF i = 0 THEN 0
  ELSE DecimalQuestions(sec, i - 1)
         + (IF sec[i].TType = "DecimalPoint" THEN QuestionsBeforeDot(sec[i].TValue) ELSE 0)

MetaOf(sec, n) ==
     [hasPercent |-> \E i \in 1..n : sec[i].TType = "Percent",
      hasThousands |-> \E i \in 1..lastDigitIdx(sec) : sec[i].TType = "ThousandsSeparator",
      trailingCommas |-> trailingCommas(sec),
      decZeros |-> PlaceCount(sec, n, "ZeroPlaceHolder", TRUE),
      decHashes |-> PlaceCount(sec, n, "HashPlaceHolder", TRUE),
      decQuestions |-> PlaceCount(sec, n, "DigitalPlaceHolder", TRUE),
      intZeros |-> PlaceCount(sec, n, "ZeroPlaceHolder", FALSE),
      intHashes |-> PlaceCount(sec, n, "HashPlaceHolder", FALSE),
      intQuestions |-> PlaceCount(sec, n, "DigitalPlaceHolder", FALSE)
                         + DecimalQuestions(sec, n),
      hasDecimal |-> \E i \in 1..n : sec[i].TType = "DecimalPoint",
      hasExplicitSign |-> \E i \in 1..n : /\ sec[i].TType = "Literal"
                                          /\ sec[i].TValue \in {<<"+">>, <<"-">>},
      hasDigitPlaceholder |-> \E i \in 1..n : sec[i].TType \in DigitTypes,
      hasOutputToken |-> \E i \in 1..n : sec[i].TType \notin {"Color", "Condition"}]

Meta(sec) == MetaOf(sec, Len(sec))

\* -- renderNumber: scaling and the digit strings -------------------------
RECURSIVE Pow(_, _)
Pow(b, k) == IF k <= 0 THEN 1 ELSE b * Pow(b, k - 1)

\* num/den rounded to an integer, a tie going to the even neighbour
RoundHalfEven(num, den) ==
  LET q == num \div den
      r == num % den
  IN IF 2 * r > den \/ (2 * r = den /\ q % 2 = 1) THEN q + 1 ELSE q

\* the digits of r, the last prec of them behind a '.'
FixedDigits(r, prec) ==
  IF prec = 0 THEN Digits(r)
  ELSE Digits(r \div Pow(10, prec)) \o <<".">> \o ZeroPad(Digits(r % Pow(10, prec)), prec)

\* strconv.FormatFloat(x, 'f', prec, 64) for x = num/den >= 0
FormatFloat(num, den, prec) == FixedDigits(RoundHalfEven(num * Pow(10, prec), den), prec)

\* the scaled magnitude as a quotient: x100 for a percent token, /1000 for
\* each trailing comma
Scaled(val, m) ==
  [num |-> AbsInt(val) * (IF m.hasPercent THEN 100 ELSE 1),
   den |-> Unit * Pow(1000, m.trailingCommas)]

\* totalDecPlaces, 0 for a section without a decimal point
Precision(m) == IF m.hasDecimal THEN m.decZeros + m.decHashes + m.decQuestions ELSE 0

\* float64 holds the scaled magnitude exactly, or it is not half-way between
\* two outputs of the given precision
ExactOrNoTie(s, prec, commas) ==
  \/ 2 * ((s.num * Pow(10, prec)) % s.den) # s.den
  \/ s.num % Pow(125, commas) = 0

ExactlyScaled(val, m) == ExactOrNoTie(Scaled(val, m), Precision(m), m.trailingCommas)

\* the trailing zeros a '#' or '?' position lets go, down to min digits
RECURSIVE TrimZeros(_, _)
TrimZeros(f, min) ==
  IF Len(f) > min /\ Len(f) > 0 /\ f[Len(f)] = "0"
  THEN TrimZeros(SubSeq(f, 1, Len(f) - 1), min) ELSE f

SpacePad(s, n) == Repeat(" ", n - Len(s)) \o s

\* the formatted magnitude, cut at its '.'
Formatted(val, m) == FormatFloat(Scaled(val, m).num, Scaled(val, m).den, Precision(m))
IntOf(f) == SubSeq(f, 1, DotIdx(f) - 1)
FracOf(f, m) ==
  IF ~m.hasDecimal THEN <<>>
  ELSE IF DotIdx(f) > Len(f) THEN Repeat("0", Precision(m))
  ELSE SubSeq(f, DotIdx(f) + 1, Len(f))

TrimFrac(frac, m) ==
  IF m.hasDecimal /\ m.decHashes + m.decQuestions > 0 /\ Len(frac) > m.decZeros
  THEN TrimZeros(frac, m.decZeros) ELSE frac

PadInt(int, m) == SpacePad(ZeroPad(int, m.intZeros), m.intZeros + m.intQuestions)

hashSuppressed(int, m) == m.intZeros = 0 /\ m.intHashes > 0 /\ int = <<"0">>

GroupInt(int, m) == IF m.hasThousands /\ Len(int) > 3 THEN insertThousandsSep(int) ELSE int

StringsFrom(int, frac, m) ==
  [intStr |-> GroupInt(IF hashSuppressed(int, m) THEN <<>> ELSE int, m),
   fracStr |-> frac,
   hashSuppressed |-> hashSuppressed(int, m)]

StringsOf(f, m) == StringsFrom(PadInt(IntOf(f), m), TrimFrac(FracOf(f, m), m), m)

\* intStr, fracStr and hashSuppressed
NumberStrings(val, m) == StringsOf(Formatted(val, m), m)

\* -- renderNumber: the sign ----------------------------------------------
\* hasSignWrapper: the section holds a literal '(' , ')', '-' or '+'
hasSignWrapperMutNever(sec) == FALSE
hasSignWrapper(sec) ==
  \E i \in 1..Len(sec) : /\ sec[i].TType = "Literal"
                         /\ sec[i].TValue \in {<<"(">>, <<")">>, <<"-">>, <<"+">>}

needsMinus(val, sec, sections) ==
  /\ val < 0
  /\ ~Meta(sec).hasExplicitSign
  /\ (Len(sections) < 2 \/ ~hasSignWrapper(sec))

\* -- renderNumber: the token walk ----------------------------------------
\* one token of the walk; w is sb, intConsumed, fracConsumed, afterDecimal
WalkToken(tok, w, ns) ==
  CASE tok.TType = "Literal" -> [w EXCEPT !.sb = @ \o tok.TValue]
    [] tok.TType = "DecimalPoint" ->
         LET lead == ~w.intConsumed /\ Len(tok.TValue) > 1
         IN [w EXCEPT !.sb = @ \o (IF lead THEN ns.intStr ELSE <<>>)
                           \o (IF Len(ns.fracStr) > 0 THEN <<".">> ELSE <<>>),
                      !.intConsumed = @ \/ lead,
                      !.afterDecimal = TRUE]
    [] tok.TType \in DigitTypes ->
         IF w.afterDecimal
         THEN IF w.fracConsumed THEN w
              ELSE [w EXCEPT !.sb = @ \o ns.fracStr, !.fracConsumed = TRUE]
         ELSE IF w.intConsumed THEN w
              ELSE [w EXCEPT !.sb = @ \o ns.intStr, !.intConsumed = TRUE]
    [] tok.TType = "Percent" -> [w EXCEPT !.sb = Append(@, "%")]
    [] tok.TType = "Alignment" -> [w EXCEPT !.sb = Append(@, " ")]
    [] tok.TType = "RepeatsChar" -> [w EXCEPT !.sb = @ \o tok.TValue]
    [] tok.TType = "CurrencyLanguage" -> [w EXCEPT !.sb = @ \o currencySymbol(tok)]
    [] OTHER -> w

\* token i is one of the scaling commas that follow the last digit placeholder
IsScalingComma(sec, i) ==
  /\ lastDigitIdx(sec) > 0
  /\ i > lastDigitIdx(sec)
  /\ i <= lastDigitIdx(sec) + trailingCommas(sec)

RECURSIVE Walk(_, _, _, _)
Walk(sec, i, w, ns) ==
  IF i > Len(sec) THEN w
  ELSE Walk(sec, i + 1, IF IsScalingComma(sec, i) THEN w ELSE WalkToken(sec[i], w, ns), ns)

WalkStart(minus) ==
  [sb |-> IF minus THEN <<"-">> ELSE <<>>, intConsumed |-> FALSE,
   fracConsumed |-> FALSE, afterDecimal |-> FALSE]

\* after the walk: an integer part no token consumed is appended, or put in
\* front of the output but behind the minus sign
Unconsumed(w, m, ns, minus) ==
  IF ~w.intConsumed /\ ~w.afterDecimal /\ m.hasDigitPlaceholder
    THEN w.sb \o ns.intStr
  ELSE IF ~w.intConsumed /\ w.afterDecimal
    THEN IF minus /\ Len(w.sb) > 0 /\ w.sb[1] = "-"
         THEN <<"-">> \o ns.intStr \o Tail(w.sb)
         ELSE ns.intStr \o w.sb
  ELSE w.sb

\* the guard on an empty output
Guarded(val, m, ns, minus, sb) ==
  IF Len(sb) = 0 /\ (~m.hasOutputToken \/ (m.hasDigitPlaceholder /\ ~ns.hashSuppressed))
  THEN [path |-> "general", needsMinus |-> FALSE, out |-> renderGeneral(val)]
  ELSE [path |-> "number", needsMinus |-> minus, out |-> sb]

Assemble(val, sec, m, ns, minus) ==
  Guarded(val, m, ns, minus, Unconsumed(Walk(sec, 1, WalkStart(minus), ns), m, ns, minus))

\* the Exponential and Fraction tokens of the section
SpecialIdxs(sec) == {i \in 1..Len(sec) : sec[i].TType \in {"Exponential", "Fraction"}}

\* renderNumber(val, sec, sections): the output, with the branch taken and
\* needsMinus.  A section with an Exponential or a Fraction token is handed
\* to renderScientific or renderFraction, which produce its output.
renderNumber(val, sec, sections) ==
  IF Len(sec) = 0 THEN [path |-> "empty", needsMinus |-> FALSE, out |-> <<>>]
  ELSE IF SpecialIdxs(sec) # {}
    THEN [path |-> IF sec[SetMin(SpecialIdxs(sec))].TType = "Exponential"
                   THEN "scientific" ELSE "fraction",
          needsMinus |-> FALSE, out |-> <<>>]
  ELSE Assemble(val, sec, Meta(sec), NumberStrings(val, Meta(sec)),
                needsMinus(val, sec, sections))

renderSelected(val, sections, sel) ==
  [sec |-> sel.sec, useAbs |-> sel.useAbs]
    @@ renderNumber(IF sel.useAbs THEN AbsInt(val) ELSE val, sections[sel.sec], sections)

\* formatFloat once the format is parsed, for a format that is not a date
\* format: no section gives the General rendering
formatFloat(val, sections) ==
  IF Len(sections) = 0
  THEN [sec |-> 0, useAbs |-> FALSE, path |-> "general", needsMinus |-> FALSE,
        out |-> renderGeneral(val)]
  ELSE renderSelected(val, sections, selectSection(sections, val))

\* -- inputs ---------------------------------------------------------------
\* longest section built from SectionTokens
MaxSecLen == 2

Zero == Tok("ZeroPlaceHolder", <<"0">>)
Zeros2 == Tok("ZeroPlaceHolder", <<"0", "0">>)
Hash == Tok("HashPlaceHolder", <<"#">>)
Hashes2 == Tok("HashPlaceHolder", <<"#", "#">>)
Question == Tok("DigitalPlaceHolder", <<"?">>)
Dot == Tok("DecimalPoint", <<".">>)
QuestionDot == Tok("DecimalPoint", <<"?", ".">>)
Percent == Tok("Percent", <<"%">>)
Thousands == Tok("ThousandsSeparator", <<",">>)
Red == Tok("Color", <<"R", "e", "d">>)
Align == Tok("Alignment", <<"_", ")">>)
Star == Tok("RepeatsChar", <<"*">>)
Euro ==
  [TType |-> "CurrencyLanguage", TValue |-> <<"[", "$", "E", "-", "4", "]">>,
   Parts |-> <<Part("CurrencyString", <<"E">>), Part("LanguageInfo", <<"4">>)>>]
EuroBare == Tok("CurrencyLanguage", <<"[", "$", "E", "-", "4", "]">>)
Bracket == Tok("CurrencyLanguage", <<"[", "R", "e", "d", "]">>)

SectionTokens ==
  {Zero, Hash, Question, Dot, Percent, Thousands, Red,
   Literal(<<"(">>), Literal(<<")">>), Literal(<<"-">>), Literal(<<"+">>),
   Literal(<<",">>), Literal(<<"x">>)}

\* sections as the parser returns them for "0", "(0)", "-0", "+0", "",
\* "0.00", ".00", "#", "#,##0", "0,", "0%", "[Red]", "neg", "[<0]0",
\* "[>=100]0.0", "[=x]0", "?.??", "_)0*", "[$E-4]0" (with and without its
\* currency part) and "[Red]" read as a currency bracket
SectionPool ==
  {<<Zero>>,
   <<Literal(<<"(">>), Zero, Literal(<<")">>)>>,
   <<Literal(<<"-">>), Zero>>,
   <<Literal(<<"+">>), Zero>>,
   <<>>,
   <<Zero, Dot, Zeros2>>,
   <<Dot, Zeros2>>,
   <<Hash>>,
   <<Hash, Thousands, Hashes2, Zero>>,
   <<Zero, Thousands>>,
   <<Zero, Percent>>,
   <<Red>>,
   <<Literal(<<"n", "e", "g">>)>>,
   <<Condition(<<"<">>, <<"0">>), Zero>>,
   <<Condition(<<">", "=">>, <<"1", "0", "0">>), Zero, Dot, Zero>>,
   <<Condition(<<"=">>, <<"x">>), Zero>>,
   <<QuestionDot, Tok("DigitalPlaceHolder", <<"?", "?">>)>>,
   <<Align, Zero, Star>>,
   <<Euro, Zero>>,
   <<EuroBare, Zero>>,
   <<Bracket, Zero>>}

\* formats "0;-0;z", "0;(0);0;neg", "[>10]0;[<-10]#;0.0",
\* "[>10]0;[>=100]0.0;0" and "[>10]0;0;#" by section
LongFormats ==
  {<<<<Zero>>, <<Literal(<<"-">>), Zero>>, <<Literal(<<"z">>)>>>>,
   <<<<Zero>>, <<Literal(<<"(">>), Zero, Literal(<<")">>)>>, <<Zero>>, <<Literal(<<"n", "e", "g">>)>>>>,
   <<<<Condition(<<">">>, <<"1", "0">>), Zero>>, <<Condition(<<"<">>, <<"-", "1", "0">>), Hash>>,
     <<Zero, Dot, Zero>>>>,
   <<<<Condition(<<">">>, <<"1", "0">>), Zero>>,
     <<Condition(<<">", "=">>, <<"1", "0", "0">>), Zero, Dot, Zero>>, <<Zero>>>>,
   <<<<Condition(<<">">>, <<"1", "0">>), Zero>>, <<Zero>>, <<Hash>>>>}

Formats ==
  {<<s>> : s \in Words(SectionTokens, MaxSecLen)}
    \cup {<<s>> : s \in SectionPool} \cup (SectionPool \X SectionPool)
    \cup LongFormats \cup {<<>>}

\* 0, 0.125, 0.5, 2.5, 5, 1234.5 and 1500, of either sign
NFValues == {0, 1, -1, 4, -4, 20, -20, 40, -40, 9876, -9876, 12000, -12000}

NFInputs ==
  {in \in NFValues \X Formats :
     in[2] = <<>> \/ ExactlyScaled(in[1], Meta(in[2][selectSection(in[2], in[1]).sec]))}

\* -- the component on its own ----------------------------------------------
notNF == <<sheetVars, fr, rt, df, dt, bf>>

InitNF ==
  /\ NoSheet
  /\ fr = NoReader
  /\ rt = NoRoundTrip
  /\ df = NoFormat
  /\ dt = NoDate
  /\ bf = NoFraction
  /\ \E in \in NFInputs :
       nf = [NoNumber EXCEPT !.val = in[1], !.sections = in[2], !.idle = FALSE]

\* formatFloat applied to the number
Rendered(n, r) ==
  [n EXCEPT !.done = TRUE, !.sec = r.sec, !.useAbs = r.useAbs, !.path = r.path,
            !.needsMinus = r.needsMinus, !.out = r.out]

NFRender ==
  /\ ~nf.idle /\ ~nf.done
  /\ nf' = Rendered(nf, formatFloat(nf.val, nf.sections))
  /\ UNCHANGED notNF

NextNF == NFRender

SpecNF == InitNF /\ [][NextNF]_vars

\* the section holds a literal token whose text is one of S
HasLiteral(sec, S) ==
  \E i \in 1..Len(sec) : sec[i].TType = "Literal" /\ sec[i].TValue \in {<<c>> : c \in S}

\* no section carries a condition: the section is chosen by sign and count
SignDispatch(sections) == \A i \in 1..Len(sections) : ~extractCondition(sections[i]).ok

\* a negative number went through the numeric renderer with the section its
\* sign selects
NegativeBySign ==
  /\ nf.done /\ nf.val < 0
  /\ nf.sections # <<>> /\ SignDispatch(nf.sections)
  /\ nf.path \notin {"scientific", "fraction"}

\* the renderer wrote a minus sign of its own in front of the output
MinusPrepended == nf.needsMinus /\ nf.out # <<>> /\ Head(nf.out) = "-"

\* the same section applied to the magnitude
Magnitude == renderNumber(-nf.val, nf.sections[nf.sec], nf.sections)

\* C20 (as stated): for a negative number rendered in numeric mode by a
\* section chosen by sign dispatch, a minus sign is prepended if and only if
\* the selected section holds no literal '(', ')', '+' or '-'.
C20_MinusIffNoWrapper ==
  NegativeBySign =>
    (MinusPrepended <=> ~HasLiteral(nf.sections[nf.sec], {"(", ")", "+", "-"}))

\* the sign rule for the selected section s, mag being the rendering of the
\* magnitude by s
SignRule(s, mag) ==
  /\ MinusPrepended <=>
       /\ s # <<>>
       /\ ~HasLiteral(s, {"+", "-"})
       /\ (Len(nf.sections) < 2 \/ ~HasLiteral(s, {"(", ")"}))
  /\ s = <<>> => nf.out = <<>>
  /\ MinusPrepended => Tail(nf.out) = IF mag.path = "general" THEN <<>> ELSE mag.out
  /\ ~MinusPrepended => nf.out = mag.out

\* C20 (amended): for a negative number rendered in numeric mode by a
\* non-empty section chosen by sign dispatch, a minus sign is prepended if and
\* only if the section holds no literal '+' or '-' and, when the format has
\* two or more sections, no literal '(' or ')' either; an empty section
\* renders the empty string.  Without the minus sign the output is that of the
\* magnitude; with it, the sign is followed by what the token walk produces
\* for the magnitude.
C20_MinusIffNoOwnSign == NegativeBySign => SignRule(nf.sections[nf.sec], Magnitude)

\* -5 under the one-section format "(0)" is rendered "-(5)"
C20_Witness ==
  /\ NegativeBySign
  /\ nf.val = -40
  /\ nf.sections = <<<<Literal(<<"(">>), Zero, Literal(<<")">>)>>>>
  /\ MinusPrepended
  /\ nf.out = <<"-", "(", "5", ")">>


\* a number went through renderNumber's own rendering (no Exponential or
\* Fraction token in the selected section)
NumericRendered ==
  nf.done /\ nf.sections # <<>> /\ nf.path \in {"number", "general", "empty"}

\* the value renderNumber was given
RenderVal == IF nf.useAbs THEN AbsInt(nf.val) ELSE nf.val

\* what the token walk wrote: the output without the minus sign put in front
WalkOutput ==
  IF nf.path # "number" THEN <<>>
  ELSE IF nf.needsMinus THEN Tail(nf.out) ELSE nf.out

\* only literals, besides colours and conditions
LiteralOnly(s) ==
  /\ \E i \in 1..Len(s) : s[i].TType = "Literal"
  /\ \A i \in 1..Len(s) : s[i].TType \in {"Literal", "Color", "Condition"}

\* '#' placeholders alone before the decimal point, and an integer part of 0
HashOnlyZero(s, val) ==
  /\ Meta(s).intZeros = 0 /\ Meta(s).intHashes > 0
  /\ NumberStrings(val, Meta(s)).hashSuppressed

IntendedSuppression(s, val) == s = <<>> \/ LiteralOnly(s) \/ HashOnlyZero(s, val)

\* C21: when the token walk of the selected section writes nothing, the result
\* is the General rendering of the value, unless the section is an intended
\* suppression (empty, literal-only, or '#'-only on a zero integer part); a
\* number is rendered as the empty string in no other case.
C21_EmptyWalkFallsBack ==
  NumericRendered =>
    /\ (WalkOutput = <<>> /\ ~IntendedSuppression(nf.sections[nf.sec], RenderVal))
         => nf.out = renderGeneral(RenderVal)
    /\ nf.out = <<>> => IntendedSuppression(nf.sections[nf.sec], RenderVal)

\* -1500 under the format "[Red]": the walk writes nothing and the output is "-"
C21_MinusOnly ==
  /\ NumericRendered
  /\ nf.val = -12000 /\ nf.sections = <<<<Red>>>>
  /\ WalkOutput = <<>>
  /\ nf.out = <<"-">>

\* the sections with a condition, and those whose condition the value satisfies
Conditional(sections) == {i \in 1..Len(sections) : extractCondition(sections[i]).ok}
Satisfied(sections, val) ==
  {i \in Conditional(sections) :
     evalCondition(val, extractCondition(sections[i]).op, extractCondition(sections[i]).operand)}

\* the section the sign of val selects among n
BySign(n, val) ==
  CASE n = 1 -> 1
    [] n = 2 -> IF val >= 0 THEN 1 ELSE 2
    [] OTHER -> IF val > 0 THEN 1 ELSE IF val < 0 THEN 2 ELSE 3

\* section i rendered the value v
RenderedBy(i, v) ==
  /\ nf.sec = i
  /\ nf.out = renderNumber(v, nf.sections[i], nf.sections).out

\* C22: when no section carries a condition the section is chosen by sign and
\* section count: 1 section serves every value; of 2 the first serves values
\* >= 0 and the second values < 0; of 3 or 4 the first serves values > 0, the
\* second values < 0 and the third zero.  The value is rendered with its sign.
C22_SectionBySign ==
  (nf.done /\ nf.sections # <<>> /\ Conditional(nf.sections) = {}) =>
    /\ ~nf.useAbs
    /\ RenderedBy(BySign(Len(nf.sections), nf.val), nf.val)

\* zero under "0;-0;z" is rendered by the third section
C22_Witness ==
  /\ nf.done /\ nf.val = 0
  /\ nf.sections = <<<<Zero>>, <<Literal(<<"-">>), Zero>>, <<Literal(<<"z">>)>>>>
  /\ nf.sec = 3 /\ nf.out = <<"z">>

\* C23: when a section carries a condition, the first section in document
\* order whose condition the value satisfies is used and renders the magnitude
\* of the value; when no condition holds the last section without a condition
\* is used, and the last section when every section has a condition.
C23_SectionByCondition ==
  (nf.done /\ Conditional(nf.sections) # {}) =>
    /\ Satisfied(nf.sections, nf.val) # {} =>
         /\ nf.useAbs
         /\ RenderedBy(SetMin(Satisfied(nf.sections, nf.val)), AbsInt(nf.val))
    /\ (Satisfied(nf.sections, nf.val) = {}
          /\ Conditional(nf.sections) # 1..Len(nf.sections)) =>
         nf.sec = SetMax((1..Len(nf.sections)) \ Conditional(nf.sections))
    /\ (Satisfied(nf.sections, nf.val) = {}
          /\ Conditional(nf.sections) = 1..Len(nf.sections)) =>
         nf.sec = Len(nf.sections)

\* 1500 under "[>10]0;[>=100]0.0;0" satisfies both conditions and is rendered
\* by the first section
C23_Witness ==
  /\ nf.done /\ nf.val = 12000
  /\ Cardinality(Satisfied(nf.sections, nf.val)) = 2
  /\ Len(nf.sections) = 3
  /\ nf.sec = 1 /\ nf.useAbs /\ nf.out = <<"1", "5", "0", "0">>

\* -5 under "[>10]0;0;#" satisfies no condition and is rendered by the last
\* section without a condition
C23_FallbackReached ==
  /\ nf.done /\ nf.val = -40
  /\ nf.sections = <<<<Condition(<<">">>, <<"1", "0">>), Zero>>, <<Zero>>, <<Hash>>>>
  /\ nf.sec = 3 /\ nf.out = <<"-", "5">>


\* ------------------------------------------------------------------------
\* The date/time renderer: renderDateTime on one parsed section.  A serial
\* is a count of 1/DayUnit days, so that the serial, its fractional day and
\* the seconds in it are exact in float64 as they are here.
\* ------------------------------------------------------------------------
DayUnit == 128
SecondsInADay == 86400

DateTok(v) == Tok("DateTimes", v)
ElapsedTok(v) == Tok("ElapsedDateTimes", v)

LowerLetters ==
  <<"a", "b", "c", "d", "e", "f", "g", "h", "i", "j", "k", "l", "m",
    "n", "o", "p", "q", "r", "s", "t", "u", "v", "w", "x", "y", "z">>
UpperLetters ==
  <<"A", "B", "C", "D", "E", "F", "G", "H", "I", "J", "K", "L", "M",
    "N", "O", "P", "Q", "R", "S", "T", "U", "V", "W", "X", "Y", "Z">>
UpperChar(c) ==
  IF \E k \in 1..26 : LowerLetters[k] = c
  THEN UpperLetters[CHOOSE k \in 1..26 : LowerLetters[k] = c]
  ELSE c
\* strings.ToUpper
ToUpper(s) == [i \in 1..Len(s) |-> UpperChar(s[i])]

\* the runes of the Chinese AM/PM token and of its two renderings
ChineseAM == <<"U+4E0A", "U+5348">>
ChinesePM == <<"U+4E0B", "U+5348">>
ChineseAmPm == ChineseAM \o <<"/">> \o ChinesePM

MonthNames ==
  << <<"J", "a", "n", "u", "a", "r", "y">>,
     <<"F", "e", "b", "r", "u", "a", "r", "y">>,
     <<"M", "a", "r", "c", "h">>,
     <<"A", "p", "r", "i", "l">>,
     <<"M", "a", "y">>,
     <<"J", "u", "n", "e">>,
     <<"J", "u", "l", "y">>,
     <<"A", "u", "g", "u", "s", "t">>,
     <<"S", "e", "p", "t", "e", "m", "b", "e", "r">>,
     <<"O", "c", "t", "o", "b", "e", "r">>,
     <<"N", "o", "v", "e", "m", "b", "e", "r">>,
     <<"D", "e", "c", "e", "m", "b", "e", "r">> >>
WeekdayNames ==
  << <<"S", "u", "n", "d", "a", "y">>,
     <<"M", "o", "n", "d", "a", "y">>,
     <<"T", "u", "e", "s", "d", "a", "y">>,
     <<"W", "e", "d", "n", "e", "s", "d", "a", "y">>,
     <<"T", "h", "u", "r", "s", "d", "a", "y">>,
     <<"F", "r", "i", "d", "a", "y">>,
     <<"S", "a", "t", "u", "r", "d", "a", "y">> >>

\* -- time.Date(...).Add(...): the calendar date n days after 1899-12-31 -----
\* days from 0000-03-01 to 1899-12-31
EpochShift == 693900
DaysPerEra == 146097
DayOfEra(z) == z % DaysPerEra
YearOfEra(doe) == (doe - doe \div 1460 + doe \div 36524 - doe \div 146096) \div 365
DayOfYear(doe, yoe) == doe - (365 * yoe + yoe \div 4 - yoe \div 100)
MonthFromMarch(doy) == (5 * doy + 2) \div 153
CivilMonth(mp) == IF mp < 10 THEN mp + 3 ELSE mp - 9
CivilOf(era, yoe, doy, mp) ==
  [Year |-> yoe + era * 400 + (IF CivilMonth(mp) <= 2 THEN 1 ELSE 0),
   Month |-> CivilMonth(mp),
   Day |-> doy - (153 * mp + 2) \div 5 + 1]
CivilOfYear(era, doe, yoe) ==
  CivilOf(era, yoe, DayOfYear(doe, yoe), MonthFromMarch(DayOfYear(doe, yoe)))
CivilFromDays(z) == CivilOfYear(z \div DaysPerEra, DayOfEra(z), YearOfEra(DayOfEra(z)))

\* the time n days and fracSec seconds after 1899-12-31 00:00:00 UTC
TimeAt(c, n, fracSec) ==
  [Year |-> c.Year, Month |-> c.Month, Day |-> c.Day,
   Hour |-> fracSec \div 3600, Minute |-> (fracSec % 3600) \div 60,
   Second |-> fracSec % 60, Weekday |-> n % 7]
BasePlus(n, fracSec) == TimeAt(CivilFromDays(n + EpochShift), n, fracSec)

\* -- convertSerial -----------------------------------------------------------
\* 1904-01-01 in days after 1899-12-31
Base1904 == 1461
\* the fractional day in seconds, below and after the whole second
WholeSeconds(serial) == ((serial % DayUnit) * SecondsInADay) \div DayUnit
SubSecond(serial) == ((serial % DayUnit) * SecondsInADay) % DayUnit
\* rounded to the nearest second (the added roundEpsilon, 86.4 microseconds
\* of a day, moves no serial counted in 1/DayUnit days across the half)
RoundedSeconds(serial) ==
  WholeSeconds(serial) + (IF 2 * SubSecond(serial) > DayUnit THEN 1 ELSE 0)
DaysOf1900(intPart) ==
  IF intPart = 0 THEN 1 ELSE IF intPart >= 61 THEN intPart - 1 ELSE intPart
SerialTime(intPart, fracSec, date1904) ==
  IF date1904 THEN BasePlus(Base1904 + intPart, fracSec)
  ELSE BasePlus(DaysOf1900(intPart), fracSec)
convertSerial(serial, date1904) ==
  IF serial < 0 THEN [ok |-> FALSE]
  ELSE [ok |-> TRUE,
        t |-> SerialTime(serial \div DayUnit + RoundedSeconds(serial) \div SecondsInADay,
                         RoundedSeconds(serial) % SecondsInADay, date1904)]

\* excelDay
excelDay(t, serial, date1904) ==
  IF serial < DayUnit THEN 0
  ELSE IF serial >= 60 * DayUnit /\ serial < 61 * DayUnit THEN 29
  ELSE t.Day

\* -- renderDateToken ---------------------------------------------------------
Hour12(h, hasAmPm) == IF ~hasAmPm THEN h ELSE IF h % 12 = 0 THEN 12 ELSE h % 12
MinuteOrMonth(t, lastWasHour) == IF lastWasHour THEN t.Minute ELSE t.Month

renderDateToken(upper, t, serial, hasAmPm, lastWasHour, date1904) ==
  CASE upper = <<"Y", "Y", "Y", "Y">> -> ZeroPad(Digits(t.Year), 4)
    [] upper = <<"Y", "Y">> -> ZeroPad(Digits(t.Year % 100), 2)
    [] upper = <<"M", "M", "M", "M">> -> MonthNames[t.Month]
    [] upper = <<"M", "M", "M">> -> SubSeq(MonthNames[t.Month], 1, 3)
    [] upper = <<"M", "M">> -> ZeroPad(Digits(MinuteOrMonth(t, lastWasHour)), 2)
    [] upper = <<"M">> -> Digits(MinuteOrMonth(t, lastWasHour))
    [] upper = <<"D", "D", "D", "D">> -> WeekdayNames[t.Weekday + 1]
    [] upper = <<"D", "D", "D">> -> SubSeq(WeekdayNames[t.Weekday + 1], 1, 3)
    [] upper = <<"D", "D">> -> ZeroPad(Digits(excelDay(t, serial, date1904)), 2)
    [] upper = <<"D">> -> Digits(excelDay(t, serial, date1904))
    [] upper = <<"H", "H">> -> ZeroPad(Digits(Hour12(t.Hour, hasAmPm)), 2)
    [] upper = <<"H">> -> Digits(Hour12(t.Hour, hasAmPm))
    [] upper = <<"S", "S">> -> ZeroPad(Digits(WholeSeconds(serial) % 60), 2)
    [] upper = <<"S">> -> Digits(WholeSeconds(serial) % 60)
    [] upper = <<"A", "M", "/", "P", "M">> ->
         IF t.Hour < 12 THEN <<"A", "M">> ELSE <<"P", "M">>
    [] upper = <<"A", "/", "P">> -> IF t.Hour < 12 THEN <<"A">> ELSE <<"P">>
    [] upper = ChineseAmPm -> IF t.Hour < 12 THEN ChineseAM ELSE ChinesePM
    [] upper = <<"M", "M", "M", "M", "M">> -> SubSeq(MonthNames[t.Month], 1, 1)
    [] upper \in {<<"E">>, <<"E", "E">>} -> Digits(t.Year)
    [] OTHER -> <<>>

\* -- renderElapsed -----------------------------------------------------------
\* strconv.FormatInt of 100 * hundreds + units, which may exceed 32 bits
BigDigits(hundreds, units) ==
  IF hundreds = 0 THEN Digits(units) ELSE Digits(hundreds) \o ZeroPad(Digits(units), 2)
ElapsedSeconds(days, secs) == BigDigits(days * 864 + secs \div 100, secs % 100)
renderElapsed(upper, serial) ==
  CASE upper \in {<<"H">>, <<"H", "H">>} -> Digits((serial * 24) \div DayUnit)
    [] upper = <<"M", "M">> -> Digits((serial \div DayUnit) * 1440
                                        + ((serial % DayUnit) * 1440) \div DayUnit)
    [] upper = <<"S", "S">> -> ElapsedSeconds(serial \div DayUnit, WholeSeconds(serial))
    [] OTHER -> <<>>

\* -- renderDateTime ----------------------------------------------------------
UpperOf(tok) == ToUpper(tok.TValue)
IsHourText(upper) == upper \in {<<"H">>, <<"H", "H">>}
IsSecondsText(upper) == upper \in {<<"S">>, <<"S", "S">>}
IsMText(upper) == upper \in {<<"M">>, <<"M", "M">>}

\* pre-scan 1
hasAmPm(sec) ==
  \E i \in 1..Len(sec) :
    /\ sec[i].TType = "DateTimes"
    /\ \/ UpperOf(sec[i]) \in {<<"A", "M", "/", "P", "M">>, <<"A", "/", "P">>}
       \/ sec[i].TValue = ChineseAmPm

\* pre-scan 2: dtTokens, as indices into the section
dtTokens(sec) == {i \in 1..Len(sec) : sec[i].TType \in {"DateTimes", "ElapsedDateTimes"}}
PrevDt(sec, i) == SetMax({j \in dtTokens(sec) : j < i} \cup {0})
NextDt(sec, i) == SetMin({j \in dtTokens(sec) : j > i} \cup {Len(sec) + 1})
\* rule (a): the previous dt token was an hour
RuleA(sec, i) == PrevDt(sec, i) > 0 /\ IsHourText(UpperOf(sec[PrevDt(sec, i)]))
\* rule (b): the next dt token is seconds
RuleB(sec, i) == NextDt(sec, i) <= Len(sec) /\ IsSecondsText(UpperOf(sec[NextDt(sec, i)]))

\* isMinuteIndex built from rule (a) alone
isMinuteIndexMutOnlyHourBefore(sec) ==
  {i \in dtTokens(sec) : IsMText(UpperOf(sec[i])) /\ RuleA(sec, i)}
isMinuteIndex(sec) ==
  {i \in dtTokens(sec) : IsMText(UpperOf(sec[i])) /\ (RuleA(sec, i) \/ RuleB(sec, i))}

\* the sub-second digits of a ZeroPlaceHolder after a seconds token:
\* math.Round of the sub-second part times 10^digits, clamped below 10^digits
RoundHalfAway(num, den) == (2 * num + den) \div (2 * den)
Clamp(n, max) == IF n >= max THEN max - 1 ELSE n
SubSecondDigits(serial, digits) ==
  <<".">> \o ZeroPad(Digits(Clamp(RoundHalfAway(SubSecond(serial) * Pow(10, digits), DayUnit),
                                  Pow(10, digits))), digits)

\* one token of the walk: what it writes and the two flags after it
DateStep(piece, hour, secs) == [piece |-> piece, lastWasHour |-> hour, lastWasSecs |-> secs]
DateTimesStep(upper, lWH, c) ==
  DateStep(renderDateToken(upper, c.t, c.serial, c.hasAmPm, lWH, c.date1904),
           IsHourText(upper), IsSecondsText(upper))
DateToken(tok, i, w, c) ==
  CASE tok.TType = "DateTimes" ->
         DateTimesStep(UpperOf(tok),
                       IF IsMText(UpperOf(tok)) THEN i \in c.isMinuteIndex ELSE w.lastWasHour, c)
    [] tok.TType = "ElapsedDateTimes" ->
         DateStep(renderElapsed(UpperOf(tok), c.serial),
                  IsHourText(UpperOf(tok)), IsSecondsText(UpperOf(tok)))
    [] tok.TType = "DecimalPoint" ->
         DateStep(IF w.lastWasSecs THEN <<>> ELSE <<".">>, FALSE, w.lastWasSecs)
    [] tok.TType = "ZeroPlaceHolder" ->
         DateStep(IF w.lastWasSecs THEN SubSecondDigits(c.serial, Len(tok.TValue))
                  ELSE tok.TValue, FALSE, FALSE)
    [] tok.TType = "Literal" -> DateStep(tok.TValue, w.lastWasHour, FALSE)
    [] tok.TType = "Alignment" -> DateStep(<<" ">>, FALSE, FALSE)
    [] tok.TType = "RepeatsChar" -> DateStep(tok.TValue, FALSE, FALSE)
    [] tok.TType = "CurrencyLanguage" -> DateStep(currencySymbol(tok), FALSE, FALSE)
    [] OTHER -> DateStep(<<>>, FALSE, FALSE)

\* the token walk: the pieces written, token by token
RECURSIVE DateWalk(_, _, _, _, _)
DateWalk(sec, i, w, c, pieces) ==
  IF i > Len(sec) THEN pieces
  ELSE DateWalk(sec, i + 1, DateToken(sec[i], i, w, c), c,
                Append(pieces, DateToken(sec[i], i, w, c).piece))

RECURSIVE Concat(_)
Concat(ps) == IF ps = <<>> THEN <<>> ELSE Head(ps) \o Concat(Tail(ps))

DateContext(t, serial, sec, date1904) ==
  [t |-> t, serial |-> serial, hasAmPm |-> hasAmPm(sec), date1904 |-> date1904,
   isMinuteIndex |-> isMinuteIndex(sec)]
\* renderGeneral of the serial
GeneralOfSerial(serial) == renderGeneral((serial * Unit) \div DayUnit)
DateGuarded(serial, pieces) ==
  IF Concat(pieces) = <<>> THEN [pieces |-> <<>>, out |-> GeneralOfSerial(serial)]
  ELSE [pieces |-> pieces, out |-> Concat(pieces)]
DateWalked(serial, sec, c) ==
  DateGuarded(serial, DateWalk(sec, 1, DateStep(<<>>, FALSE, FALSE), c, <<>>))
renderDateTime(serial, sec, date1904) ==
  IF ~convertSerial(serial, date1904).ok
  THEN [pieces |-> <<>>, out |-> GeneralOfSerial(serial)]
  ELSE DateWalked(serial, sec,
                  DateContext(convertSerial(serial, date1904).t, serial, sec, date1904))

\* -- inputs ------------------------------------------------------------------
\* longest section over DateTokenPool
MaxDateLen == 3

Colon == Literal(<<":">>)
DateTokenPool ==
  {DateTok(<<"h">>), DateTok(<<"m">>), DateTok(<<"m", "m">>), DateTok(<<"s", "s">>),
   DateTok(<<"d">>), DateTok(<<"A", "M", "/", "P", "M">>), ElapsedTok(<<"h">>), Colon}

\* sections as the parser returns them for "yyyy-mm-dd", "dd/mm/yy", "mmm",
\* "mmmm d", "mmmmm", "dddd", "ddd", "HH:MM:SS", "h:mm A/P", "s", "ss.000",
\* "ss.0", "[mm]:ss", "[ss]", "[hh]", "m [ss]", "e", "g", "[Red]", "[Red]d",
\* "_)d*x", "0 d .", "[$E-4]d", "h d m", "m d s", "m.ss", "h0m" and the
\* Chinese AM/PM token after an hour
DatePool ==
  {<<DateTok(<<"y", "y", "y", "y">>), Literal(<<"-">>), DateTok(<<"m", "m">>),
     Literal(<<"-">>), DateTok(<<"d", "d">>)>>,
   <<DateTok(<<"d", "d">>), Literal(<<"/">>), DateTok(<<"m", "m">>), Literal(<<"/">>),
     DateTok(<<"y", "y">>)>>,
   <<DateTok(<<"m", "m", "m">>)>>,
   <<DateTok(<<"m", "m", "m", "m">>), Literal(<<" ">>), DateTok(<<"d">>)>>,
   <<DateTok(<<"m", "m", "m", "m", "m">>)>>,
   <<DateTok(<<"d", "d", "d", "d">>)>>,
   <<DateTok(<<"d", "d", "d">>)>>,
   <<DateTok(<<"H", "H">>), Colon, DateTok(<<"M", "M">>), Colon, DateTok(<<"S", "S">>)>>,
   <<DateTok(<<"h">>), Colon, DateTok(<<"m", "m">>), Literal(<<" ">>), DateTok(<<"A", "/", "P">>)>>,
   <<DateTok(<<"s">>)>>,
   <<DateTok(<<"s", "s">>), Dot, Tok("ZeroPlaceHolder", <<"0", "0", "0">>)>>,
   <<DateTok(<<"s", "s">>), Dot, Zero>>,
   <<ElapsedTok(<<"m", "m">>), Colon, DateTok(<<"s", "s">>)>>,
   <<ElapsedTok(<<"s", "s">>)>>,
   <<ElapsedTok(<<"h", "h">>)>>,
   <<DateTok(<<"m">>), Literal(<<" ">>), ElapsedTok(<<"s", "s">>)>>,
   <<DateTok(<<"e">>)>>,
   <<DateTok(<<"g">>)>>,
   <<Red>>,
   <<Red, DateTok(<<"d">>)>>,
   <<Align, DateTok(<<"d">>), Star>>,
   <<Zero, Literal(<<" ">>), DateTok(<<"d">>), Literal(<<" ">>), Dot>>,
   <<Euro, DateTok(<<"d">>)>>,
   <<DateTok(<<"h">>), Literal(<<" ">>), DateTok(<<"d">>), Literal(<<" ">>), DateTok(<<"m">>)>>,
   <<DateTok(<<"m">>), Literal(<<" ">>), DateTok(<<"d">>), Literal(<<" ">>), DateTok(<<"s">>)>>,
   <<DateTok(<<"m">>), Dot, DateTok(<<"s", "s">>)>>,
   <<DateTok(<<"h">>), Zero, DateTok(<<"m">>)>>,
   <<DateTok(<<"h">>), DateTok(ChineseAmPm)>>}

DateSections == Words(DateTokenPool, MaxDateLen) \cup DatePool

\* 0.4140625, 60, 61.7109375, 45285.4140625 (2023-12-25 09:56:15),
\* 45285.5 and -2
DateSerials == {53, 7680, 7899, 5796533, 5796544, -256}

\* the General rendering is modelled for serials that are whole eighths
GeneralExact(serial) == (serial * Unit) % DayUnit = 0
DateInputs ==
  {in \in DateSerials \X DateSections \X BOOLEAN :
     GeneralExact(in[1]) \/ renderDateTime(in[1], in[2], in[3]).pieces # <<>>}

\* -- the component on its own ------------------------------------------------
notDT == <<sheetVars, fr, rt, df, nf, bf>>

InitDT ==
  /\ NoSheet
  /\ fr = NoReader
  /\ rt = NoRoundTrip
  /\ df = NoFormat
  /\ nf = NoNumber
  /\ bf = NoFraction
  /\ \E in \in DateInputs :
       dt = [NoDate EXCEPT !.serial = in[1], !.sec = in[2], !.date1904 = in[3],
                           !.idle = FALSE]

\* renderDateTime applied to the serial
DateRendered(d, r) == [d EXCEPT !.done = TRUE, !.pieces = r.pieces, !.out = r.out]

DTRender ==
  /\ ~dt.idle /\ ~dt.done
  /\ dt' = DateRendered(dt, renderDateTime(dt.serial, dt.sec, dt.date1904))
  /\ UNCHANGED notDT

NextDT == DTRender

SpecDT == InitDT /\ [][NextDT]_vars


\* -- C24 ---------------------------------------------------------------------
\* a serial that converts has been rendered
DateRenderedOk == ~dt.idle /\ dt.done /\ convertSerial(dt.serial, dt.date1904).ok
DateTime == convertSerial(dt.serial, dt.date1904).t
\* the M and MM tokens of the section
MTokens(sec) == {i \in 1..Len(sec) : sec[i].TType = "DateTimes" /\ IsMText(UpperOf(sec[i]))}
IsDt(tok) == tok.TType \in {"DateTimes", "ElapsedDateTimes"}
\* the date/time token next before i is an hour token
HourBefore(sec, i) ==
  \E j \in 1..(i - 1) :
    /\ IsDt(sec[j]) /\ IsHourText(UpperOf(sec[j]))
    /\ \A k \in (j + 1)..(i - 1) : ~IsDt(sec[k])
\* the date/time token next after i is a seconds token
SecondsAfter(sec, i) ==
  \E j \in (i + 1)..Len(sec) :
    /\ IsDt(sec[j]) /\ IsSecondsText(UpperOf(sec[j]))
    /\ \A k \in (i + 1)..(j - 1) : ~IsDt(sec[k])
\* a number written as the token writes it: MM pads to two digits
AsMToken(tok, n) == IF Len(tok.TValue) = 2 THEN ZeroPad(Digits(n), 2) ELSE Digits(n)

\* C24: in date/time rendering an M or MM token is written as the minutes
\* exactly when the date/time token next before it is an hour token or the
\* date/time token next after it is a seconds token (literals and other
\* tokens in between do not count); in every other position it is written
\* as the month.
C24_MinuteBesideHourOrSeconds ==
  DateRenderedOk =>
    \A i \in MTokens(dt.sec) :
      dt.pieces[i] = AsMToken(dt.sec[i],
                              IF HourBefore(dt.sec, i) \/ SecondsAfter(dt.sec, i)
                              THEN DateTime.Minute ELSE DateTime.Month)

\* an M token with no hour before it and a seconds token after it was written
\* as the minutes, which differ from the month
C24_Witness ==
  /\ DateRenderedOk
  /\ DateTime.Minute # DateTime.Month
  /\ \E i \in MTokens(dt.sec) :
       /\ ~HourBefore(dt.sec, i) /\ SecondsAfter(dt.sec, i)
       /\ dt.pieces[i] = AsMToken(dt.sec[i], DateTime.Minute)

\* an M token with a day token between it and the hour was written as the month
C24_MonthReached ==
  /\ DateRenderedOk
  /\ DateTime.Minute # DateTime.Month
  /\ \E i \in MTokens(dt.sec) :
       /\ \E j \in 1..(i - 1) : IsHourText(UpperOf(dt.sec[j]))
       /\ dt.pieces[i] = AsMToken(dt.sec[i], DateTime.Month)


\* -- C25 ---------------------------------------------------------------------
\* the rows the markers q open: a marker with the index of the row that is
\* open opens nothing
RECURSIVE OpenedRows(_, _)
OpenedRows(q, cur) ==
  IF q = <<>> THEN <<>>
  ELSE IF Head(q) = cur THEN OpenedRows(Tail(q), cur)
  ELSE <<Head(q)>> \o OpenedRows(Tail(q), Head(q))

\* the blank rows of dense mode before each opened row
RECURSIVE WithBlanks(_, _)
WithBlanks(q, cur) ==
  IF q = <<>> THEN <<>>
  ELSE [k \in 1..(Head(q) - 1 - cur) |-> cur + k] \o <<Head(q)>> \o WithBlanks(Tail(q), Head(q))

\* the indices of the rows a never-stopped iteration over the row data yields
RowsDue(sp, q) == IF sp THEN OpenedRows(q, -1) ELSE WithBlanks(OpenedRows(q, -1), -1)
\* the indices of the rows yielded so far
YieldedIndices == [i \in 1..Len(out) |-> out[i][1].R]
\* the open row has not been yielded yet (inside a yield call, the row
\* that was open is the one just handed over or has blank rows after it)
OpenIndex == IF pc = "rows" /\ row # <<>> THEN <<rowNum>> ELSE <<>>

\* C25: while the consumer does not stop, the rows yielded are, in order,
\* the rows opened by the accepted row markers read so far (with the blank
\* rows of dense mode before each), every one once and the open row not yet;
\* when the iteration ends at the end-of-row-data marker or at the end of
\* the stream every opened row has been yielded exactly once, and nothing
\* is yielded after that.
C25_OpenedRowsYieldedOnce ==
  (ws.hasSheetData /\ fin \in {"running", "complete"} /\ pc \in {"rows", "yield", "open"})
    => /\ IsPrefix(YieldedIndices \o OpenIndex, RowsDue(sparse, RowMarkers(data, ws.dataOffset)))
       /\ fin = "complete" =>
            YieldedIndices = RowsDue(sparse, RowMarkers(data, ws.dataOffset))

\* a never-stopped iteration over markers 0, 0, 2 has ended: rows 0 and 2,
\* with the blank row 1 between them in dense mode
C25_Witness ==
  /\ Finished /\ fin = "complete" /\ limit = 0
  /\ ws.hasSheetData
  /\ RowMarkers(data, ws.dataOffset) = <<0, 0, 2>>
  /\ YieldedIndices = IF sparse THEN <<0, 2>> ELSE <<0, 1, 2>>
  /\ last.res.err = "nil" /\ last.res.recID = SheetDataEnd


\* -- C26 ---------------------------------------------------------------------
\* C26: the consumer's callback returns false at its limit-th call; no
\* iteration of Rows calls it more than limit times, so no row - the open
\* row, a blank row of dense mode, the row flushed at the end-of-row-data
\* marker or at the end of the stream - is yielded after the callback has
\* returned false, and the loop reads no further record after it.
C26_NoYieldAfterStop ==
  (limit > 0 /\ fin # "none")
    => /\ Len(out) <= limit
       /\ pc = "rows" => (~stopped /\ Len(out) < limit)

\* a dense iteration was stopped at a row marker, by the open row or by a
\* blank row, with at least two more rows due
C26_Witness ==
  /\ Finished /\ fin = "stopped" /\ ~sparse
  /\ Len(out) = limit
  /\ last.res.err = "nil" /\ last.res.recID = Row
  /\ Len(RowsDue(sparse, RowMarkers(data, ws.dataOffset))) >= limit + 2


\* -- C27 ---------------------------------------------------------------------
\* the payload of the last row marker among the records of stream d from
\* offset p up to offset stop, m being the last one found so far
RECURSIVE LastMarker(_, _, _, _)
LastMarker(d, p, stop, m) ==
  IF p >= stop \/ ReaderNext(d, p).err # "nil" THEN m
  ELSE LastMarker(d, ReaderNext(d, p).pos, stop,
                  IF ReaderNext(d, p).recID = Row
                  THEN [found |-> TRUE, payload |-> ReaderNext(d, p).data] ELSE m)
NoMarker == [found |-> FALSE, payload |-> <<>>]
\* the step put a cell record into the open row
CellPlaced == pc = "rows" /\ Len(recs') = Len(recs) + 1

\* C27: a cell record goes into the open row only when the row marker that
\* most recently preceded it in the stream was accepted and opened that row
\* (or repeated its index): after a rejected row marker the cell records
\* are not placed into the row opened before it.
C27_CellInRowOfLastMarker ==
  [][CellPlaced =>
       /\ LastMarker(data, ws.dataOffset, last'.at, NoMarker).found
       /\ RowAccepted(LastMarker(data, ws.dataOffset, last'.at, NoMarker).payload)
       /\ RowIndex(LastMarker(data, ws.dataOffset, last'.at, NoMarker).payload) = rowNum]_vars

\* a yielded row holds a cell whose record came after every accepted marker
\* and right after a rejected one
C27_CellAfterRejectedMarker ==
  /\ Finished /\ fin = "complete" /\ ws.hasSheetData
  /\ RowMarkers(data, ws.dataOffset) = <<0>>
  /\ Len(out) = 1 /\ Len(outRecs[1].recs) = 1
  /\ Len(out[1]) >= 2 /\ out[1][2].V.t # "nil"
  /\ LastMarker(data, ws.dataOffset, Len(data), NoMarker).found
  /\ ~RowAccepted(LastMarker(data, ws.dataOffset, Len(data), NoMarker).payload)


\* -- C28 ---------------------------------------------------------------------
\* C28: a worksheet that was opened without error has a nil Err during and
\* after every Rows iteration, dense or sparse, complete or stopped: every
\* record pass 2 reads was read without error by pass 1.
C28_ErrNilAfterRows ==
  (fin # "none") => (openErr = "nil" /\ ws.Err = "nil")

\* while a dense iteration is inside the yield call for a blank row, with
\* two rows handed out, the loop body of its consumer ran another iteration
\* until that one's consumer stopped; the last record read was read without
\* error and Err is nil
C28_Witness ==
  /\ Finished /\ fin = "stopped" /\ ws.hasSheetData
  /\ outer # NoFrame /\ outer.site = "fill" /\ ~outer.sparse /\ Len(outer.out) >= 2
  /\ Len(out) >= 1
  /\ last.res.err = "nil"
  /\ ws.Err = "nil"


\* -- C29 ---------------------------------------------------------------------
\* C29: styles.isDateFormatID, workbook.isDateFormatID and the renderer's
\* isDateFormat (the shared dateformat helpers) return the same result for
\* every number-format ID and format string.
C29_ClassifiersAgree ==
  df.done => (df.styles = df.workbook /\ df.workbook = df.render)

\* the three copies agree on every built-in ID
C29_AgreeOnBuiltIn ==
  (df.done /\ df.id < 164) => (df.styles = df.workbook /\ df.workbook = df.render)

\* a custom format with a seconds token alone: a date for the workbook and
\* the renderer, no date for the style table
C29_SecondsOnly ==
  /\ df.done /\ df.id >= 164 /\ df.fmt = <<"s", "s">>
  /\ ~df.styles /\ df.workbook /\ df.render

\* a custom format with an era token alone: a date for the renderer only
C29_EraOnly ==
  /\ df.done /\ df.id >= 164 /\ df.fmt = <<"e">>
  /\ ~df.styles /\ ~df.workbook /\ df.render


\* ------------------------------------------------------------------------
\* The fraction search: bestFraction on a fractional part x = x[1] / x[2]
\* and a largest denominator.  The comparisons are made on exact products,
\* held as sequences of digits to the base LimbBase (lowest first) because
\* they exceed 32 bits.
\* ------------------------------------------------------------------------
LimbBase == 10000

RECURSIVE BigOf(_)
BigOf(n) == IF n = 0 THEN <<>> ELSE <<n % LimbBase>> \o BigOf(n \div LimbBase)

\* a times k, plus carry, for k up to 200000
RECURSIVE BigTimes(_, _, _)
BigTimes(a, k, carry) ==
  IF a = <<>> THEN BigOf(carry)
  ELSE <<(Head(a) * k + carry) % LimbBase>>
         \o BigTimes(Tail(a), k, (Head(a) * k + carry) \div LimbBase)

BigTrim(a) == SubSeq(a, 1, SetMax({i \in 1..Len(a) : a[i] # 0} \cup {0}))
BigLimb(a, i) == IF i <= Len(a) THEN a[i] ELSE 0
\* a < b
BigLess(a, b) ==
  \/ Len(a) < Len(b)
  \/ /\ Len(a) = Len(b)
     /\ \E i \in 1..Len(a) :
          a[i] < b[i] /\ \A j \in (i + 1)..Len(a) : a[j] = b[j]
\* a - b - borrow for a >= b, limb by limb from limb i on
RECURSIVE BigMinus(_, _, _, _)
BigMinus(a, b, i, borrow) ==
  IF i > Len(a) THEN <<>>
  ELSE <<(a[i] - BigLimb(b, i) - borrow + LimbBase) % LimbBase>>
         \o BigMinus(a, b, i + 1, IF a[i] - BigLimb(b, i) - borrow < 0 THEN 1 ELSE 0)
\* |a - b|
BigDist(a, b) ==
  IF BigLess(a, b) THEN BigTrim(BigMinus(b, a, 1, 0)) ELSE BigTrim(BigMinus(a, b, 1, 0))

\* n * d as a product
Prod(n, d) == BigTimes(BigOf(n), d, 0)
\* |x - n/d| times x[2] * d
Gap(x, n, d) == BigDist(Prod(x[1], d), Prod(n, x[2]))

\* x < n/d
Below(x, n, d) == BigLess(Prod(x[1], d), Prod(n, x[2]))
\* math.Abs(x - n/d) < 1e-10
Within(x, n, d) ==
  BigLess(BigTimes(BigTimes(Gap(x, n, d), 100000, 0), 100000, 0), Prod(x[2], d))
\* |x - n1/d1| <= |x - n2/d2|
NoFarther(x, n1, d1, n2, d2) ==
  ~BigLess(BigTimes(Gap(x, n2, d2), d1, 0), BigTimes(Gap(x, n1, d1), d2, 0))

Frac(n, d) == [num |-> n, den |-> d]

\* the Stern-Brocot search and the choice between its two boundaries
RECURSIVE SternBrocot(_, _, _, _, _, _)
SternBrocot(x, maxDen, loN, loD, hiN, hiD) ==
  IF loD + hiD > maxDen
  THEN IF NoFarther(x, loN, loD, hiN, hiD) THEN Frac(loN, loD) ELSE Frac(hiN, hiD)
  ELSE IF Within(x, loN + hiN, loD + hiD) THEN Frac(loN + hiN, loD + hiD)
  ELSE IF Below(x, loN + hiN, loD + hiD)
       THEN SternBrocot(x, maxDen, loN, loD, loN + hiN, loD + hiD)
       ELSE SternBrocot(x, maxDen, loN + hiN, loD + hiD, hiN, hiD)

bestFraction(x, maxDen) ==
  IF x[1] <= 0 THEN Frac(0, 1)
  ELSE IF x[1] >= x[2] THEN Frac(1, 1)
  ELSE SternBrocot(x, maxDen, 0, 1, 1, 1)

\* maxDen of renderFraction: denWidth nines
maxDenOf(denWidth) == Pow(10, denWidth) - 1

\* -- inputs ------------------------------------------------------------------
\* largest denominator of a fractional part a/b
MaxXDen == 12
\* largest maximum denominator tried with each of them
MaxDen == 9

\* the two boundaries left when the search has run to its end
RECURSIVE Boundaries(_, _, _, _, _, _)
Boundaries(x, maxDen, loN, loD, hiN, hiD) ==
  IF loD + hiD > maxDen THEN <<Frac(loN, loD), Frac(hiN, hiD)>>
  ELSE IF Below(x, loN + hiN, loD + hiD)
       THEN Boundaries(x, maxDen, loN, loD, loN + hiN, loD + hiD)
       ELSE Boundaries(x, maxDen, loN + hiN, loD + hiD, hiN, hiD)
PowerOfTwo(n) == \E k \in 0..30 : n = Pow(2, k)
\* x lies midway between the two: the comparison of the two errors is as
\* exact in float64 as it is here only when every quotient is
Midway(x, lo, hi) ==
  BigTimes(Gap(x, lo.num, lo.den), hi.den, 0) = BigTimes(Gap(x, hi.num, hi.den), lo.den, 0)
ExactChoice(x, lo, hi) ==
  Midway(x, lo, hi) => (PowerOfTwo(x[2]) /\ PowerOfTwo(lo.den) /\ PowerOfTwo(hi.den))
ExactlyCompared(x, maxDen) ==
  ExactChoice(x, Boundaries(x, maxDen, 0, 1, 1, 1)[1], Boundaries(x, maxDen, 0, 1, 1, 1)[2])

\* 0.14159265 and 0.1 with "??" (99), 0.333333 with "?" (9), and
\* 35503/164409 with "?????" (99999)
FractionCases ==
  {<<<<14159265, 100000000>>, maxDenOf(2)>>,
   <<<<1, 10>>, maxDenOf(2)>>,
   <<<<333333, 1000000>>, maxDenOf(1)>>,
   <<<<35503, 164409>>, maxDenOf(5)>>}

FractionInputs ==
  {in \in {<<a, b>> : a \in 1..(MaxXDen - 1), b \in 2..MaxXDen} \X (1..MaxDen) :
     in[1][1] < in[1][2] /\ ExactlyCompared(in[1], in[2])}
    \cup FractionCases

\* -- the component on its own ------------------------------------------------
notBF == <<sheetVars, fr, rt, df, nf, dt>>

InitBF ==
  /\ NoSheet
  /\ fr = NoReader
  /\ rt = NoRoundTrip
  /\ df = NoFormat
  /\ nf = NoNumber
  /\ dt = NoDate
  /\ \E in \in FractionInputs :
       bf = [NoFraction EXCEPT !.x = in[1], !.maxDen = in[2], !.idle = FALSE]

\* bestFraction applied to the fractional part
FractionFound(b, r) == [b EXCEPT !.done = TRUE, !.num = r.num, !.den = r.den]

BFSearch ==
  /\ ~bf.idle /\ ~bf.done
  /\ bf' = FractionFound(bf, bestFraction(bf.x, bf.maxDen))
  /\ UNCHANGED notBF

NextBF == BFSearch

SpecBF == InitBF /\ [][NextBF]_vars

\* -- C30 ---------------------------------------------------------------------
\* n/d is strictly closer to x than p/q
Closer(x, n, d, p, q) == ~NoFarther(x, p, q, n, d)
\* the fractions the result is compared with: every fraction between 0 and 1
\* with a denominator of at most MaxDen, and the two neighbours of x among
\* the fractions with a denominator of at most maxDen
Rivals(x, maxDen) ==
  {Frac(n, d) : n \in 0..MaxDen, d \in 1..SetMin({MaxDen, maxDen})}
    \cup {Boundaries(x, maxDen, 0, 1, 1, 1)[1], Boundaries(x, maxDen, 0, 1, 1, 1)[2]}

\* C30: for 0 < x < 1 and a largest denominator D >= 1 the search returns
\* p/q with 1 <= q <= D such that no fraction with a denominator of at most
\* D is strictly closer to x than p/q.
C30_NoCloserFraction ==
  (bf.done /\ bf.x[1] > 0 /\ bf.x[1] < bf.x[2] /\ bf.maxDen >= 1)
    => /\ bf.den >= 1 /\ bf.den <= bf.maxDen
       /\ \A r \in Rivals(bf.x, bf.maxDen) : ~Closer(bf.x, r.num, r.den, bf.num, bf.den)

\* with a largest denominator of at most 999 no fraction is strictly closer
C30_BestUpToThreeDigits ==
  (bf.done /\ bf.maxDen <= 999)
    => /\ bf.den >= 1 /\ bf.den <= bf.maxDen
       /\ \A r \in Rivals(bf.x, bf.maxDen) : ~Closer(bf.x, r.num, r.den, bf.num, bf.den)

\* the search stopped at 15411/71366, within 1e-10 of x = 35503/164409,
\* while 20092/93043 is strictly closer
C30_StoppedWithinTolerance ==
  /\ bf.done /\ bf.x = <<35503, 164409>> /\ bf.maxDen = 99999
  /\ bf.num = 15411 /\ bf.den = 71366
  /\ Within(bf.x, bf.num, bf.den)
  /\ Closer(bf.x, 20092, 93043, bf.num, bf.den)

\* 0.14159265 with two denominator digits gives 14/99
C30_PiReached ==
  bf.done /\ bf.x = <<14159265, 100000000>> /\ bf.num = 14 /\ bf.den = 99

====
